---- MODULE Spec2Model ----
(***************************************************************************)
(* The agent orchestration loop of w6/simple-agent: Agent.run and          *)
(* Agent.stream (agent/agent.ts), the session helpers (session/session.ts) *)
(* and ToolExecutor (tool/executor.ts) over ToolRegistry; and, each used   *)
(* on its own, ToolRegistry (tool/registry.ts), MCPManager and MCPClient   *)
(* (mcp/) and the streaming adapter LLMClient.stream (llm/client.ts).      *)
(*                                                                         *)
(* Strings are modelled as sequences of tokens, so that concatenation and  *)
(* "contains" are real operations.  One action is one run-to-completion    *)
(* segment of the JavaScript code between two suspension points.           *)
(***************************************************************************)
EXTENDS Integers, Sequences, FiniteSets, TLC

VARIABLES
    messages,      \* session.messages
    status,        \* session.status
    maxSteps,      \* this.config.maxSteps
    registry,      \* ToolRegistry.tools: the registered tool names
    options,       \* ToolExecutor.options
    onEvent,       \* this.config.onEvent: the events on which the callback throws
    pc,            \* where the call in flight is suspended
    mode,          \* "run" or "stream": which orchestrator method is in flight
    step,          \* the local variable step of run / stream
    toolCalls,     \* the local toolCalls of run / stream; the calls of a batch
    policy,        \* "all" (executeAll) or "sequential" (executeSequential)
    inv,           \* one record per call of the batch: the promise of execute(call)
    order,         \* indices of the batch in the order their promises settled
    execResults,   \* what executeAll / executeSequential resolved to
    evq,           \* events the inference stream of this step has yet to deliver
    currentText,   \* local currentText of stream
    content,       \* local content of stream
    toolCallBuffers, \* local toolCallBuffers of stream
    outcome,       \* how the last call settled: "none", "returned", "threw"
    thrown,        \* the condition thrown by the last call
    runs,          \* run / stream calls made on the session so far
    llmCalls,      \* inference calls (or streams opened) by the call in flight
    batches,       \* executeAll batches awaited by the call in flight
    invoked,       \* tool executors invoked by the call in flight
    hooked,        \* hooks invoked by the call in flight
    runBase,       \* Len(session.messages) when the call in flight began
    callBase,      \* session.messages at the latest inference call
    failedAt,      \* step whose inference failed in the call in flight, else 0
    request,       \* the LLMInput of the latest inference call
    fed,           \* what the backend delivered to the call in flight, per step
    yielded,       \* the types of the progress events of the call: what stream
                   \* has yielded, what run has handed to the onEvent callback
    tools,         \* ToolRegistry.tools of a registry used directly: the Map
    log,           \* the registrations and removals made on it, oldest first
    before,        \* its tools when the latest operation on it began
    returned,      \* what the latest operation on it returned or threw
    clients,       \* MCPManager.clients: the Map from server name to client
    mcp,           \* the MCPClient objects created so far
    teardown,      \* the promise of the latest disconnectAll()
    mcpCall,       \* the promise of the latest call of an MCP tool's executor
    refused        \* the names for which addServer threw "already exists"

agentVars == <<messages, status, maxSteps, registry, options, pc, mode, step,
               toolCalls, policy, inv, order, execResults, evq, currentText,
               content, toolCallBuffers, outcome, thrown, runs, llmCalls,
               batches, invoked, hooked, runBase, callBase, failedAt, onEvent,
               request, fed, yielded>>

registryVars == <<tools, log, before, returned>>

\* the objects used on their own, outside an Agent
mcpVars == <<clients, mcp, teardown, mcpCall, refused>>

componentVars == <<registryVars, mcpVars>>

vars == <<agentVars, componentVars>>

sessionVars == <<messages, status>>
configVars  == <<maxSteps, registry, options, onEvent>>
streamVars  == <<evq, currentText, content, toolCallBuffers>>
batchVars   == <<toolCalls, policy, inv, order, execResults>>

(***************************************************************************)
(* Bounds of the model.                                                    *)
(***************************************************************************)
MaxStepsBound == 3      \* maxSteps is drawn from 0 .. MaxStepsBound
MaxRuns == 2            \* run / stream calls on the one session
MaxTotalSteps == 2      \* steps explored on the one session, all calls together
MaxBatches == 1         \* batches handed to a stand-alone ToolExecutor

(***************************************************************************)
(* Content blocks (types.ts).                                              *)
(***************************************************************************)
Text(t) == [type |-> "text", text |-> t]

ToolCall(id, name, args) ==
    [type |-> "tool_call", id |-> id, name |-> name, arguments |-> args]

ToolResultContent(id, result, isError) ==
    [type |-> "tool_result", toolCallId |-> id, result |-> result,
     isError |-> isError]

Message(role, blocks) == [role |-> role, content |-> blocks]

\* JSON.parse with the fallback to the raw string (agent.ts, client.ts)
ValidJSON == {<<"{", "}">>}

JsonParse(s) ==
    IF s \in ValidJSON THEN [kind |-> "object", src |-> s]
    ELSE [kind |-> "string", src |-> s]

RECURSIVE FilterType(_, _)
FilterType(blocks, ty) ==
    IF blocks = <<>> THEN <<>>
    ELSE IF Head(blocks).type = ty
         THEN <<Head(blocks)>> \o FilterType(Tail(blocks), ty)
         ELSE FilterType(Tail(blocks), ty)

\* response.content.filter(c => c.type === "tool_call")
ToolCallsOf(blocks) == FilterType(blocks, "tool_call")

(***************************************************************************)
(* Tools.  A tool is its name; what its executor may do is drawn from      *)
(* ToolOutcomes: resolve to a ToolResult, or fail with a message.          *)
(***************************************************************************)
ToolNames == {"echo", "fail"}

ToolResult(output, hasError, error) ==
    [kind |-> "return", output |-> output, hasError |-> hasError,
     error |-> error]

Thrown(message) == [kind |-> "throw", message |-> message]

ToolOutcomes(name) ==
    IF name = "echo"
    THEN {ToolResult(<<"out">>, FALSE, <<>>), Thrown(<<"boom">>)}
    ELSE {ToolResult(<<>>, TRUE, <<"bad">>), ToolResult(<<"out">>, TRUE, <<>>)}

HookMessages == {<<"hook failed">>}

TimeoutMs == 50

ExecutorOptions ==
    [timeout : {0, TimeoutMs}, onBeforeExecute : BOOLEAN,
     onAfterExecute : BOOLEAN]

\* new ToolExecutor(registry): options = {}
DefaultOptions ==
    [timeout |-> 0, onBeforeExecute |-> FALSE, onAfterExecute |-> FALSE]

(***************************************************************************)
(* ToolExecutor.execute.  inv[i] is the promise of execute(calls[i]):      *)
(*   phase  "waiting"  not started (executeSequential only)                *)
(*          "before"   suspended in onBeforeExecute                        *)
(*          "running"  suspended in executeWithTimeout                     *)
(*          "after"    suspended in onAfterExecute                         *)
(*          "settled"  resolved to result                                  *)
(*          "rejected" rejected (no path of execute leads here)            *)
(*   tool   "idle" / "running" / "done": the tool's own executor, which a  *)
(*          timeout abandons but does not stop                             *)
(*   timer  "none" / "armed" / "fired": the timer of executeWithTimeout,   *)
(*          which is never cleared                                         *)
(*   cause, message: what decided the result and the message it threw      *)
(*   hooks  hooks invoked for this call                                    *)
(***************************************************************************)
NoResult == [type |-> "none"]

Promise(phase, result, tool, cause, message, hooks, timer) ==
    [phase |-> phase, result |-> result, tool |-> tool, cause |-> cause,
     message |-> message, hooks |-> hooks, timer |-> timer]

Waiting == Promise("waiting", NoResult, "idle", "none", <<>>, 0, "none")

\* executeWithTimeout: if (this.options.timeout) a timer is set
Timer(opts) == IF opts.timeout > 0 THEN "armed" ELSE "none"

NotFoundMessage(name) == <<"Tool not found: ", name>>

TimeoutMessage(ms) == <<"Tool execution timed out after ", ToString(ms), "ms">>

\* a result that carries the tool's name where the call's id belongs
MakeToolResultByName(call, r) ==
    ToolResultContent(call.name,
                      IF r.hasError THEN r.error ELSE r.output,
                      r.hasError /\ r.error # <<>>)

\* executor.ts 70-75
MakeToolResult(call, r) ==
    ToolResultContent(call.id,
                      IF r.hasError THEN r.error ELSE r.output,
                      r.hasError /\ r.error # <<>>)

\* an error result that drops the message of the error it caught
ErrorResultWithoutMessage(call, message) ==
    ToolResultContent(call.id, <<"Tool execution failed">>, TRUE)

\* executor.ts 82-91
ErrorResult(call, message) == ToolResultContent(call.id, message, TRUE)

\* executor.ts 31-40
NotFoundResult(call) ==
    ToolResultContent(call.id, NotFoundMessage(call.name), TRUE)

\* execute(call) looking the tool up with getOrThrow: an unknown name rejects
StartExecuteOrThrow(call, reg, opts) ==
    IF call.name \notin reg
    THEN Promise("rejected", NoResult, "idle", "notfound",
                 NotFoundMessage(call.name), 0, "none")
    ELSE IF opts.onBeforeExecute
         THEN Promise("before", NoResult, "idle", "none", <<>>, 1, "none")
         ELSE Promise("running", NoResult, "running", "none", <<>>, 0,
                      Timer(opts))

\* the synchronous part of execute(call), up to its first suspension
StartExecute(call, reg, opts) ==
    IF call.name \notin reg
    THEN Promise("settled", NotFoundResult(call), "idle", "notfound",
                 NotFoundMessage(call.name), 0, "none")
    ELSE IF opts.onBeforeExecute
         THEN Promise("before", NoResult, "idle", "none", <<>>, 1, "none")
         ELSE Promise("running", NoResult, "running", "none", <<>>, 0,
                      Timer(opts))

\* calls.map((call) => this.execute(call, ctx))
StartAll(calls, reg, opts) ==
    [i \in 1..Len(calls) |-> StartExecute(calls[i], reg, opts)]

\* executeSequential: only the first call is started
StartFirst(calls, reg, opts) ==
    [i \in 1..Len(calls) |->
        IF i = 1 THEN StartExecute(calls[i], reg, opts) ELSE Waiting]

RECURSIVE CountPhase(_, _)
CountPhase(iv, ph) ==
    IF iv = <<>> THEN 0
    ELSE (IF Head(iv).phase = ph THEN 1 ELSE 0) + CountPhase(Tail(iv), ph)

RECURSIVE SettledIndices(_, _)
SettledIndices(iv, i) ==
    IF i > Len(iv) THEN <<>>
    ELSE (IF iv[i].phase = "settled" THEN <<i>> ELSE <<>>)
         \o SettledIndices(iv, i + 1)

AllSettled(iv) == \A i \in 1..Len(iv) : iv[i].phase = "settled"

AnyRejected(iv) == \E i \in 1..Len(iv) : iv[i].phase = "rejected"

\* a wait that ends with the first promise to settle
FirstDone(iv) ==
    iv = <<>> \/ \E i \in 1..Len(iv) : iv[i].phase \in {"settled", "rejected"}

\* Promise.all settles: every input resolved, or one of them rejected
AllDone(iv) == AllSettled(iv) \/ AnyRejected(iv)

\* the results in the order in which the promises settled
PromiseAllInCompletionOrder(iv, ord) ==
    [i \in 1..Len(ord) |-> iv[ord[i]].result]

\* Promise.all: the results in the order of the input promises
PromiseAll(iv, ord) == [i \in 1..Len(iv) |-> iv[i].result]

InBatch == pc \in {"tools", "exec"}

\* the promises of the batch exist: it is awaited, or executeAll /
\* executeSequential has just settled
Lingering == InBatch \/ (mode = "exec" /\ pc = "idle")

\* bookkeeping shared by the steps of one execute(): what a step leaves alone
BatchFrame ==
    UNCHANGED <<sessionVars, configVars, componentVars,
                streamVars, pc, mode, step,
                toolCalls, policy, execResults, outcome, thrown, runs,
                llmCalls, batches, runBase, callBase, failedAt, request,
                fed, yielded>>

Settle(i, res, cause, m) ==
    /\ inv' = [inv EXCEPT ![i].phase = "settled", ![i].result = res,
                          ![i].cause = cause, ![i].message = m]
    /\ order' = Append(order, i)

\* await this.options.onBeforeExecute(call, ctx) resolves; the tool is invoked
BeforeHookReturns(i) ==
    /\ InBatch
    /\ inv[i].phase = "before"
    /\ inv' = [inv EXCEPT ![i].phase = "running", ![i].tool = "running",
                          ![i].timer = Timer(options)]
    /\ invoked' = invoked + 1
    /\ UNCHANGED <<order, hooked>>
    /\ BatchFrame

\* onBeforeExecute throws or rejects: caught at executor.ts 82
BeforeHookThrows(i, m) ==
    /\ InBatch
    /\ inv[i].phase = "before"
    /\ Settle(i, ErrorResult(toolCalls[i], m), "before", m)
    /\ UNCHANGED <<invoked, hooked>>
    /\ BatchFrame

\* tool.execute resolves to a ToolResult before any timeout
ToolReturns(i, r) ==
    /\ InBatch
    /\ inv[i].phase = "running"
    /\ r \in ToolOutcomes(toolCalls[i].name)
    /\ r.kind = "return"
    /\ IF options.onAfterExecute
       THEN /\ inv' = [inv EXCEPT ![i].phase = "after", ![i].tool = "done",
                                  ![i].result = MakeToolResult(toolCalls[i], r),
                                  ![i].cause = "returned",
                                  ![i].hooks = @ + 1]
            /\ hooked' = hooked + 1
            /\ UNCHANGED order
       ELSE /\ inv' = [inv EXCEPT ![i].phase = "settled", ![i].tool = "done",
                                  ![i].result = MakeToolResult(toolCalls[i], r),
                                  ![i].cause = "returned"]
            /\ order' = Append(order, i)
            /\ UNCHANGED hooked
    /\ UNCHANGED invoked
    /\ BatchFrame

\* tool.execute throws or rejects before any timeout
ToolThrows(i, r) ==
    /\ InBatch
    /\ inv[i].phase = "running"
    /\ r \in ToolOutcomes(toolCalls[i].name)
    /\ r.kind = "throw"
    /\ inv' = [inv EXCEPT ![i].phase = "settled", ![i].tool = "done",
                          ![i].result = ErrorResult(toolCalls[i], r.message),
                          ![i].cause = "tool", ![i].message = r.message]
    /\ order' = Append(order, i)
    /\ UNCHANGED <<invoked, hooked>>
    /\ BatchFrame

\* the timer of executeWithTimeout fires first: Promise.race rejects
TimeoutFires(i) ==
    /\ InBatch
    /\ options.timeout > 0
    /\ inv[i].phase = "running"
    /\ inv[i].timer = "armed"
    /\ inv' = [inv EXCEPT
                 ![i].phase = "settled",
                 ![i].result = ErrorResult(toolCalls[i],
                                           TimeoutMessage(options.timeout)),
                 ![i].cause = "timeout",
                 ![i].message = TimeoutMessage(options.timeout),
                 ![i].timer = "fired"]
    /\ order' = Append(order, i)
    /\ UNCHANGED <<invoked, hooked>>
    /\ BatchFrame

\* the timer fires after the tool has settled: the race is already decided
TimerLoses(i) ==
    /\ Lingering
    /\ inv[i].phase # "running"
    /\ inv[i].timer = "armed"
    /\ inv' = [inv EXCEPT ![i].timer = "fired"]
    /\ UNCHANGED <<order, invoked, hooked>>
    /\ BatchFrame

\* a late settlement of the tool that is taken for the result all the same
LoserOverwrites(i) ==
    /\ Lingering
    /\ inv[i].phase # "running"
    /\ inv[i].tool = "running"
    /\ inv' = [inv EXCEPT ![i].tool = "done",
                          ![i].result = ToolResultContent(toolCalls[i].id,
                                                          <<"late">>, FALSE)]
    /\ UNCHANGED <<order, invoked, hooked>>
    /\ BatchFrame

\* the abandoned tool settles after its timeout: nobody listens
LoserSettles(i) ==
    /\ Lingering
    /\ inv[i].phase # "running"
    /\ inv[i].tool = "running"
    /\ inv' = [inv EXCEPT ![i].tool = "done"]
    /\ UNCHANGED <<order, invoked, hooked>>
    /\ BatchFrame

\* await this.options.onAfterExecute(call, toolResult, ctx) resolves
AfterHookReturns(i) ==
    /\ InBatch
    /\ inv[i].phase = "after"
    /\ Settle(i, inv[i].result, inv[i].cause, inv[i].message)
    /\ UNCHANGED <<invoked, hooked>>
    /\ BatchFrame

\* onAfterExecute awaited outside the try block: its failure rejects execute
AfterHookRejects(i, m) ==
    /\ InBatch
    /\ inv[i].phase = "after"
    /\ inv' = [inv EXCEPT ![i].phase = "rejected", ![i].cause = "after",
                          ![i].message = m]
    /\ UNCHANGED <<order, invoked, hooked>>
    /\ BatchFrame

\* onAfterExecute throws or rejects: caught at executor.ts 82
AfterHookThrows(i, m) ==
    /\ InBatch
    /\ inv[i].phase = "after"
    /\ Settle(i, ErrorResult(toolCalls[i], m), "after", m)
    /\ UNCHANGED <<invoked, hooked>>
    /\ BatchFrame

\* a loop that starts the next call without awaiting the one before
SequentialNextEager(i) ==
    /\ pc = "exec"
    /\ policy = "sequential"
    /\ inv[i].phase = "waiting"
    /\ \A j \in 1..(i - 1) : inv[j].phase # "waiting"
    /\ LET rec == StartExecute(toolCalls[i], registry, options) IN
         /\ inv' = [inv EXCEPT ![i] = rec]
         /\ order' = IF rec.phase = "settled" THEN Append(order, i) ELSE order
         /\ invoked' = invoked + (IF rec.tool = "running" THEN 1 ELSE 0)
         /\ hooked' = hooked + rec.hooks
    /\ BatchFrame

\* executeSequential: results.push(await this.execute(call, ctx)) goes on
SequentialNext(i) ==
    /\ pc = "exec"
    /\ policy = "sequential"
    /\ inv[i].phase = "waiting"
    /\ \A j \in 1..(i - 1) : inv[j].phase = "settled"
    /\ LET rec == StartExecute(toolCalls[i], registry, options) IN
         /\ inv' = [inv EXCEPT ![i] = rec]
         /\ order' = IF rec.phase = "settled" THEN Append(order, i) ELSE order
         /\ invoked' = invoked + (IF rec.tool = "running" THEN 1 ELSE 0)
         /\ hooked' = hooked + rec.hooks
    /\ BatchFrame

(***************************************************************************)
(* The inference backend, as the orchestrator sees it.                     *)
(* Responses: what llm.call may resolve to (LLMOutput.content).            *)
(* EventStreams: what llm.stream may deliver for one step.                 *)
(***************************************************************************)
Args == JsonParse(<<"{", "}">>)

CallA == ToolCall("c1", "echo", Args)
CallB == ToolCall("c2", "echo", Args)
CallC == ToolCall("c3", "fail", Args)
CallG == ToolCall("c3", "ghost", Args)

Responses ==
    { <<>>,
      <<Text(<<"x", "y">>)>>,
      <<Text(<<"x">>), Text(<<"y">>)>>,
      <<Text(<<"x">>), CallG>>,
      <<CallB, Text(<<"x">>)>>,
      <<CallA, CallB>>,
      <<CallA, CallA>> }

UserTexts == {<<"hi">>}

TextDelta(t) == [type |-> "text_delta", text |-> t]
ToolCallStart(id, name) == [type |-> "tool_call_start", id |-> id, name |-> name]
ToolCallDelta(id, a) == [type |-> "tool_call_delta", id |-> id, arguments |-> a]
ToolCallEnd(id, name, a) ==
    [type |-> "tool_call_end", id |-> id, name |-> name, arguments |-> a]
Finish(reason) == [type |-> "finish", reason |-> reason]
ErrorEvent(e) == [type |-> "error", error |-> e]

\* the events that stream one content block: a delta per token of a text,
\* start / delta / end for a function call
BlockEvents(b) ==
    IF b.type = "text"
    THEN [i \in 1..Len(b.text) |-> TextDelta(<<b.text[i]>>)]
    ELSE <<ToolCallStart(b.id, b.name),
           ToolCallDelta(b.id, b.arguments.src),
           ToolCallEnd(b.id, b.name, b.arguments.src)>>

RECURSIVE EventsOf(_)
EventsOf(blocks) ==
    IF blocks = <<>> THEN <<>>
    ELSE BlockEvents(Head(blocks)) \o EventsOf(Tail(blocks))

StreamErrors == {"BackendError"}

\* the event sequences of a stream that does not fail; a failing stream
\* delivers a prefix of one of them and then an error event (StreamError)
EventStreams == { EventsOf(c) \o <<Finish("stop")>> : c \in Responses }

StreamChoices(m) == IF m = "stream" THEN EventStreams ELSE {<<>>}

EmptyMap == [x \in {} |-> NoResult]

(***************************************************************************)
(* Session helpers (session/session.ts).                                   *)
(***************************************************************************)
\* a user message that starts the message list afresh
AddUserMessageAfresh(msgs, text) == <<Message("user", <<Text(text)>>)>>

\* addUserMessage
AddUserMessage(msgs, text) == Append(msgs, Message("user", <<Text(text)>>))

RECURSIVE Join(_, _)
Join(parts, sep) ==
    IF parts = <<>> THEN <<>>
    ELSE IF Len(parts) = 1 THEN Head(parts)
    ELSE Head(parts) \o sep \o Join(Tail(parts), sep)

\* getTextContent: the texts of the text blocks, joined by "\n"
GetTextContent(message) ==
    LET texts == FilterType(message.content, "text") IN
      Join([i \in 1..Len(texts) |-> texts[i].text], <<"\n">>)

RECURSIVE CountRole(_, _)
CountRole(msgs, role) ==
    IF msgs = <<>> THEN 0
    ELSE (IF Head(msgs).role = role THEN 1 ELSE 0) + CountRole(Tail(msgs), role)

\* steps taken on the session so far: one assistant message per step
StepsTaken == CountRole(messages, "assistant")

\* the exploration stops where one more step would pass MaxTotalSteps
MayStep(s) == s >= maxSteps \/ StepsTaken < MaxTotalSteps

(***************************************************************************)
(* Agent.run and Agent.stream (agent/agent.ts).                            *)
(***************************************************************************)
\* config.onEvent: absent, or a callback that throws on the events of the
\* types in throwsOn and returns on every other event
NoCallback == [configured |-> FALSE, throwsOn |-> {}]

Callback(types) == [configured |-> TRUE, throwsOn |-> types]

Callbacks ==
    { Callback(ts) : ts \in { {}, {"step"}, {"message_start"}, {"text"},
                              {"tool_call"}, {"tool_result"},
                              {"message_end"}, {"error"} } }

\* this.emit(event) for events of the given types, called by m ("run" calls
\* emit, "stream" yields instead): true when one of the calls throws
EmitThrows(m, types) ==
    m = "run" /\ onEvent.configured /\ types \cap onEvent.throwsOn # {}

\* the catch block: this.emit({type: "error"}) and then throw error; a
\* callback that throws on the error event replaces the error
ThrownFrom(m, err) ==
    IF EmitThrows(m, {"error"}) THEN "CallbackError" ELSE err

SystemPrompt == <<"be brief">>

\* registry.toToolDefinitions()
ToToolDefinitions(reg) == { [name |-> n] : n \in reg }

\* a request whose tool definitions were taken when the agent was built
LLMInputAtConstruction(msgs, reg) ==
    [messages |-> msgs, systemPrompt |-> SystemPrompt,
     tools |-> ToToolDefinitions(ToolNames)]

\* the argument of this.llm.call / this.llm.stream
LLMInput(msgs, reg) ==
    [messages |-> msgs, systemPrompt |-> SystemPrompt,
     tools |-> ToToolDefinitions(reg)]

NoRequest == [messages |-> <<>>, systemPrompt |-> <<>>, tools |-> {}]

\* what the backend delivered for one step
Response(c) == [kind |-> "response", content |-> c]
Events(evs) == [kind |-> "events", events |-> evs]
Rejected == [kind |-> "rejected"]

\* the events emitted for the assistant message of a response (run 101-129)
ResponseEmits(c) ==
    {"message_start"}
      \cup (IF FilterType(c, "text") # <<>> THEN {"text", "text_done"} ELSE {})
      \cup (IF ToolCallsOf(c) = <<>> THEN {"message_end"} ELSE {"tool_call"})

\* the events emitted for a tool message (run 144-155)
ToolMessageEmits == {"message_start", "tool_result", "message_end"}

\* the limit test with > in place of >=
StepLimitPassed(s, limit) == s > limit

\* if (step >= this.config.maxSteps) throw new MaxStepsExceededError(...)
StepLimitReached(s, limit) == s >= limit

\* what the code after the while loop yields: the catch block's error event
PostLoopYields(s) ==
    IF StepLimitReached(s, maxSteps) THEN <<"error">> ELSE <<>>

\* the events of evs, emitted one after the other, up to the first one on
\* which the callback throws
RECURSIVE UpToThrow(_)
UpToThrow(evs) ==
    IF evs = <<>> THEN <<>>
    ELSE IF Head(evs) \in onEvent.throwsOn THEN <<Head(evs)>>
    ELSE <<Head(evs)>> \o UpToThrow(Tail(evs))

\* the progress events that reach the caller when m produces evs: stream
\* yields each of them; run hands them to config.onEvent, if there is one,
\* until it throws
Delivered(m, evs) ==
    IF m = "stream" THEN evs
    ELSE IF onEvent.configured THEN UpToThrow(evs)
    ELSE <<>>

\* the events run emits for the assistant message of a response, in the
\* order of the code (run 101-129)
RECURSIVE TextEmits(_)
TextEmits(c) ==
    IF c = <<>> THEN <<>>
    ELSE (IF Head(c).type = "text" THEN <<"text", "text_done">> ELSE <<>>)
         \o TextEmits(Tail(c))

ResponseEmitSeq(c) ==
    <<"message_start">> \o TextEmits(c)
        \o (IF ToolCallsOf(c) = <<>> THEN <<"message_end">>
            ELSE [i \in 1..Len(ToolCallsOf(c)) |-> "tool_call"])

\* the progress events from the while test with step = s up to the inference
\* call or the inference stream
IterateYields(m, s) ==
    IF s < maxSteps
    THEN IF m = "stream" THEN <<"step", "message_start">>
         ELSE Delivered(m, <<"step">>)
                \o (IF EmitThrows(m, {"step"}) THEN Delivered(m, <<"error">>)
                    ELSE <<>>)
    ELSE Delivered(m, PostLoopYields(s))

\* the progress events of the tool message of n results (run 144-155,
\* stream 294-305)
ToolMessageYields(n) ==
    <<"message_start">> \o [i \in 1..n |-> "tool_result"]
        \o <<"message_end">>

\* the code after the while loop, and the catch block when it throws
PostLoop(m, s) ==
    /\ pc' = "idle"
    /\ IF StepLimitReached(s, maxSteps)
       THEN /\ status' = "error"
            /\ outcome' = "threw"
            /\ thrown' = ThrownFrom(m, "MaxStepsExceeded")
       ELSE /\ status' = "completed"
            /\ outcome' = "returned"
            /\ thrown' = "none"

ResetLocals ==
    /\ toolCalls' = <<>>
    /\ inv' = <<>>
    /\ order' = <<>>
    /\ currentText' = <<>>
    /\ content' = <<>>
    /\ toolCallBuffers' = EmptyMap

\* an emit throws inside the try block with step = s: the catch block
Abort(m, msgs, s, n) ==
    /\ messages' = msgs
    /\ ResetLocals
    /\ step' = s
    /\ llmCalls' = n
    /\ evq' = <<>>
    /\ status' = "error"
    /\ outcome' = "threw"
    /\ thrown' = ThrownFrom(m, "CallbackError")
    /\ pc' = "idle"
    /\ UNCHANGED <<callBase, request>>

\* the while test with step = s and, when it passes, the step event and the
\* inference call or the inference stream (delivering evs) of the next step
Iterate(m, msgs, s, n, evs) ==
    IF s < maxSteps /\ EmitThrows(m, {"step"})
    THEN Abort(m, msgs, s + 1, n)
    ELSE /\ messages' = msgs
         /\ ResetLocals
         /\ IF s < maxSteps
            THEN /\ step' = s + 1
                 /\ llmCalls' = n + 1
                 /\ callBase' = msgs
                 /\ request' = LLMInput(msgs, registry)
                 /\ pc' = IF m = "run" THEN "llm" ELSE "stream"
                 /\ evq' = evs
                 /\ status' = "running"
                 /\ outcome' = "none"
                 /\ thrown' = "none"
            ELSE /\ step' = s
                 /\ llmCalls' = n
                 /\ evq' = <<>>
                 /\ UNCHANGED <<callBase, request>>
                 /\ PostLoop(m, s)

\* fed after the while test with step = s: a stream that is opened delivers evs
FedAfter(m, f, s, evs) ==
    IF m = "stream" /\ s < maxSteps THEN Append(f, Events(evs)) ELSE f

\* break out of the while loop after the assistant message msgs ends with
Break(msgs) ==
    /\ messages' = msgs
    /\ ResetLocals
    /\ evq' = <<>>
    /\ UNCHANGED <<step, llmCalls, callBase, request>>
    /\ PostLoop(mode, step)

\* this.executor.executeAll(toolCalls, ctx) is called and awaited
ExecuteAll(msgs, tcs) ==
    LET started == StartAll(tcs, registry, options) IN
    /\ messages' = msgs
    /\ toolCalls' = tcs
    /\ inv' = started
    /\ order' = SettledIndices(started, 1)
    /\ invoked' = invoked + CountPhase(started, "running")
    /\ hooked' = hooked + CountPhase(started, "before")
    /\ batches' = batches + 1
    /\ pc' = "tools"
    /\ currentText' = <<>>
    /\ content' = <<>>
    /\ toolCallBuffers' = EmptyMap
    /\ evq' = <<>>
    /\ UNCHANGED <<status, step, llmCalls, callBase, request, outcome, thrown>>

\* run(session, userMessage) / stream(session, userMessage) up to the first
\* inference call
Start(m, text, evs) ==
    /\ pc = "idle"
    /\ mode # "exec"
    /\ runs < MaxRuns
    /\ MayStep(0)
    /\ runs' = runs + 1
    /\ mode' = m
    /\ runBase' = Len(messages)
    /\ batches' = 0
    /\ invoked' = 0
    /\ hooked' = 0
    /\ failedAt' = 0
    /\ fed' = FedAfter(m, <<>>, 0, evs)
    /\ yielded' = IterateYields(m, 0)
    /\ Iterate(m, AddUserMessage(messages, text), 0, 0, evs)
    /\ UNCHANGED <<configVars, componentVars, policy, execResults>>

RunStart(text) == Start("run", text, <<>>)

StreamStart(text, evs) == Start("stream", text, evs)

\* await this.llm.call(...) resolves to a response with content c
LLMReturns(c) ==
    /\ pc = "llm"
    /\ fed' = Append(fed, Response(c))
    /\ yielded' = yielded \o Delivered(mode, ResponseEmitSeq(c))
                     \o (IF EmitThrows(mode, ResponseEmits(c))
                         THEN Delivered(mode, <<"error">>)
                         ELSE IF ToolCallsOf(c) = <<>>
                              THEN Delivered(mode, PostLoopYields(step))
                              ELSE <<>>)
    /\ LET msgs == Append(messages, Message("assistant", c))
           tcs  == ToolCallsOf(c) IN
         IF EmitThrows(mode, ResponseEmits(c))
         THEN /\ Abort(mode, msgs, step, llmCalls)
              /\ UNCHANGED <<batches, invoked, hooked>>
         ELSE IF Len(tcs) = 0
              THEN /\ Break(msgs)
                   /\ UNCHANGED <<batches, invoked, hooked>>
              ELSE ExecuteAll(msgs, tcs)
    /\ UNCHANGED <<configVars, componentVars,
                   mode, policy, execResults, runs, runBase,
                   failedAt>>

\* a catch block that rethrows without marking the session
LLMFailsUnmarked ==
    /\ pc = "llm"
    /\ outcome' = "threw"
    /\ thrown' = ThrownFrom(mode, "LLMError")
    /\ failedAt' = step
    /\ fed' = Append(fed, Rejected)
    /\ UNCHANGED yielded
    /\ pc' = "idle"
    /\ UNCHANGED <<messages, status, configVars, componentVars,
                   mode, step, batchVars,
                   streamVars, runs, llmCalls, batches, invoked, hooked,
                   runBase, callBase, request>>

\* a rejected inference call that is issued once more
LLMFailsRetrying ==
    /\ pc = "llm"
    /\ llmCalls' = llmCalls + 1
    /\ failedAt' = step
    /\ fed' = Append(fed, Rejected)
    /\ UNCHANGED yielded
    /\ UNCHANGED <<messages, status, configVars, componentVars,
                   pc, mode, step, batchVars,
                   streamVars, outcome, thrown, runs, batches, invoked,
                   hooked, runBase, callBase, request>>

\* await this.llm.call(...) rejects: the catch block of run
LLMFails ==
    /\ pc = "llm"
    /\ status' = "error"
    /\ outcome' = "threw"
    /\ thrown' = ThrownFrom(mode, "LLMError")
    /\ failedAt' = step
    /\ fed' = Append(fed, Rejected)
    /\ yielded' = yielded \o Delivered(mode, <<"error">>)
    /\ pc' = "idle"
    /\ UNCHANGED <<messages, configVars, componentVars,
                   mode, step, batchVars, streamVars,
                   runs, llmCalls, batches, invoked, hooked, runBase,
                   callBase, request>>

\* await this.executor.executeAll(...) settles.  Resolved: the tool message
\* is pushed and the loop goes round.  Rejected: the catch block.
ToolsDone(evs) ==
    /\ pc = "tools"
    /\ AllDone(inv)
    /\ evs \in StreamChoices(mode)
    /\ MayStep(step)
    /\ yielded' = IF AnyRejected(inv)
                  THEN yielded \o Delivered(mode, <<"error">>)
                  ELSE yielded
                         \o Delivered(mode, ToolMessageYields(Len(inv)))
                         \o (IF EmitThrows(mode, ToolMessageEmits)
                             THEN Delivered(mode, <<"error">>)
                             ELSE IterateYields(mode, step))
    /\ IF AnyRejected(inv)
       THEN /\ status' = "error"
            /\ outcome' = "threw"
            /\ thrown' = ThrownFrom(mode, "ToolError")
            /\ pc' = "idle"
            /\ UNCHANGED <<messages, step, llmCalls, callBase, request,
                           toolCalls, inv, order, streamVars, fed>>
       ELSE LET msgs == Append(messages,
                               Message("tool", PromiseAll(inv, order))) IN
            IF EmitThrows(mode, ToolMessageEmits)
            THEN /\ Abort(mode, msgs, step, llmCalls)
                 /\ UNCHANGED fed
            ELSE /\ Iterate(mode, msgs, step, llmCalls, evs)
                 /\ fed' = FedAfter(mode, fed, step, evs)
    /\ UNCHANGED <<configVars, componentVars,
                   mode, policy, execResults, runs, batches,
                   invoked, hooked, runBase, failedAt>>

StreamFrame ==
    UNCHANGED <<messages, status, configVars, componentVars,
                pc, mode, step, policy, inv,
                order, execResults, outcome, thrown, runs, llmCalls, batches,
                invoked, hooked, runBase, callBase, failedAt, request, fed>>

Streaming(ty) == pc = "stream" /\ evq # <<>> /\ Head(evq).type = ty

\* a text_delta whose text replaces what the step has accumulated
StreamTextDeltaLatest ==
    /\ Streaming("text_delta")
    /\ currentText' = Head(evq).text
    /\ yielded' = Append(yielded, "text")
    /\ evq' = Tail(evq)
    /\ UNCHANGED <<content, toolCalls, toolCallBuffers>>
    /\ StreamFrame

\* case "text_delta"
StreamTextDelta ==
    /\ Streaming("text_delta")
    /\ currentText' = currentText \o Head(evq).text
    /\ yielded' = Append(yielded, "text")
    /\ evq' = Tail(evq)
    /\ UNCHANGED <<content, toolCalls, toolCallBuffers>>
    /\ StreamFrame

\* case "tool_call_start"
StreamToolCallStart ==
    /\ Streaming("tool_call_start")
    /\ LET e == Head(evq) IN
         toolCallBuffers' =
            [x \in DOMAIN toolCallBuffers \cup {e.id} |->
                IF x = e.id
                THEN [id |-> e.id, name |-> e.name, arguments |-> <<>>]
                ELSE toolCallBuffers[x]]
    /\ evq' = Tail(evq)
    /\ UNCHANGED <<content, toolCalls, currentText, yielded>>
    /\ StreamFrame

\* case "tool_call_delta"
StreamToolCallDelta ==
    /\ Streaming("tool_call_delta")
    /\ LET e == Head(evq) IN
         toolCallBuffers' =
            IF e.id \in DOMAIN toolCallBuffers
            THEN [toolCallBuffers EXCEPT
                    ![e.id].arguments = @ \o e.arguments]
            ELSE toolCallBuffers
    /\ evq' = Tail(evq)
    /\ UNCHANGED <<content, toolCalls, currentText, yielded>>
    /\ StreamFrame

\* case "tool_call_end"
StreamToolCallEnd ==
    /\ Streaming("tool_call_end")
    /\ LET e == Head(evq) IN
         toolCalls' =
            Append(toolCalls, ToolCall(e.id, e.name, JsonParse(e.arguments)))
    /\ yielded' = Append(yielded, "tool_call")
    /\ evq' = Tail(evq)
    /\ UNCHANGED <<content, currentText, toolCallBuffers>>
    /\ StreamFrame

\* case "finish"
StreamFinish ==
    /\ Streaming("finish")
    /\ content' = IF currentText # <<>>
                  THEN Append(content, Text(currentText))
                  ELSE content
    /\ yielded' = yielded \o (IF currentText # <<>> THEN <<"text_done">>
                               ELSE <<>>) \o <<"message_end">>
    /\ evq' = Tail(evq)
    /\ UNCHANGED <<toolCalls, currentText, toolCallBuffers>>
    /\ StreamFrame

\* an error event that first seals what the step has accumulated into an
\* assistant message
StreamErrorSealing(e) ==
    /\ pc = "stream"
    /\ evq # <<>>
    /\ messages' = Append(messages,
                          Message("assistant",
                                  <<Text(currentText)>> \o toolCalls))
    /\ status' = "error"
    /\ outcome' = "threw"
    /\ thrown' = ErrorEvent(e).error
    /\ failedAt' = step
    /\ pc' = "idle"
    /\ evq' = <<>>
    /\ yielded' = yielded \o <<"error", "error">>
    /\ UNCHANGED <<configVars, componentVars,
                   mode, step, batchVars, currentText, content,
                   toolCallBuffers, runs, llmCalls, batches, invoked, hooked,
                   runBase, callBase, request, fed>>

\* case "error": the backend fails before its finish event, the adapter
\* delivers an error event and the event's error is thrown into the catch
\* block of stream
StreamError(e) ==
    /\ pc = "stream"
    /\ evq # <<>>
    /\ status' = "error"
    /\ outcome' = "threw"
    /\ thrown' = ErrorEvent(e).error
    /\ failedAt' = step
    /\ pc' = "idle"
    /\ evq' = <<>>
    /\ yielded' = yielded \o <<"error", "error">>
    /\ UNCHANGED <<messages, configVars, componentVars,
                   mode, step, batchVars, currentText,
                   content, toolCallBuffers, runs, llmCalls, batches, invoked,
                   hooked, runBase, callBase, request, fed>>

\* the inference stream is exhausted: the assistant message is assembled
StreamEnd ==
    /\ pc = "stream"
    /\ evq = <<>>
    /\ yielded' = IF Len(toolCalls) = 0
                  THEN yielded \o PostLoopYields(step)
                  ELSE yielded
    /\ LET msgs == Append(messages, Message("assistant", content \o toolCalls))
       IN IF Len(toolCalls) = 0
          THEN /\ Break(msgs)
               /\ UNCHANGED <<batches, invoked, hooked>>
          ELSE ExecuteAll(msgs, toolCalls)
    /\ UNCHANGED <<configVars, componentVars,
                   mode, policy, execResults, runs, runBase,
                   failedAt, fed>>

(***************************************************************************)
(* The consumer of stream stops iterating (break in for await, or          *)
(* generator.return()): the generator completes at the yield where it is   *)
(* suspended.  stream has a catch block and no finally block, so no code   *)
(* of stream runs after that yield.                                        *)
(***************************************************************************)
\* closed at a yield of the while loop, inside the try block
StreamReturn ==
    /\ mode = "stream"
    /\ pc = "stream"
    /\ yielded # <<>>
    /\ pc' = "idle"
    /\ outcome' = "closed"
    /\ thrown' = "none"
    /\ evq' = <<>>
    /\ ResetLocals
    /\ UNCHANGED <<sessionVars, configVars, componentVars, mode, step, policy,
                   execResults, runs, llmCalls, batches, invoked, hooked,
                   runBase, callBase, failedAt, request, fed, yielded>>

\* closed at the yield of the catch block: throw error is not reached
StreamReturnInCatch(e) ==
    /\ mode = "stream"
    /\ pc = "stream"
    /\ evq # <<>>
    /\ status' = "error"
    /\ outcome' = "closed"
    /\ thrown' = "none"
    /\ failedAt' = step
    /\ pc' = "idle"
    /\ evq' = <<>>
    /\ yielded' = yielded \o <<"error", "error">>
    /\ UNCHANGED <<messages, configVars, componentVars,
                   mode, step, batchVars, currentText,
                   content, toolCallBuffers, runs, llmCalls, batches, invoked,
                   hooked, runBase, callBase, request, fed>>

(***************************************************************************)
(* The host changes the agent's tools (Agent.registerTool,                 *)
(* Agent.unregisterTool) while a run call is suspended; the calls that     *)
(* follow on the session, run or stream, find the registry as it was left. *)
(***************************************************************************)
\* run is suspended in its inference call or in executeAll
RunSuspended == mode = "run" /\ pc \in {"llm", "tools"}

\* the tools the host registers and unregisters
HostTools == {"fail"}

RegistryFrame ==
    UNCHANGED <<sessionVars, maxSteps, options, onEvent, componentVars, pc,
                mode, step,
                batchVars, streamVars, outcome, thrown, runs, llmCalls,
                batches, invoked, hooked, runBase, callBase, failedAt,
                request, fed, yielded>>

\* registerTool(tool): this.tools.set(tool.name, tool)
RegisterTool(n) ==
    /\ RunSuspended
    /\ registry' = registry \cup {n}
    /\ RegistryFrame

\* unregisterTool(name): this.tools.delete(name)
UnregisterTool(n) ==
    /\ RunSuspended
    /\ registry' = registry \ {n}
    /\ RegistryFrame

(***************************************************************************)
(* A ToolExecutor driven directly: executeAll / executeSequential.         *)
(***************************************************************************)
ExecBatches ==
    { <<>>, <<CallG>>, <<CallA, CallC>>, <<CallA, CallB, CallC>>,
      <<CallG, CallA>> }

\* executeAll(calls, ctx) / executeSequential(calls, ctx) is called
ExecStart(calls, pol) ==
    /\ pc = "idle"
    /\ mode = "exec"
    /\ batches < MaxBatches
    /\ LET started == IF pol = "all"
                      THEN StartAll(calls, registry, options)
                      ELSE StartFirst(calls, registry, options) IN
         /\ inv' = started
         /\ order' = SettledIndices(started, 1)
         /\ invoked' = invoked + CountPhase(started, "running")
         /\ hooked' = hooked + CountPhase(started, "before")
    /\ toolCalls' = calls
    /\ policy' = pol
    /\ execResults' = <<>>
    /\ batches' = batches + 1
    /\ pc' = "exec"
    /\ outcome' = "none"
    /\ UNCHANGED <<sessionVars, configVars, componentVars,
                   streamVars, mode, step, thrown,
                   runs, llmCalls, runBase, callBase, failedAt, request,
                   fed, yielded>>

\* the promise of executeAll / executeSequential settles
ExecDone ==
    /\ pc = "exec"
    /\ AllDone(inv)
    /\ IF AnyRejected(inv)
       THEN /\ outcome' = "threw"
            /\ UNCHANGED execResults
       ELSE /\ outcome' = "returned"
            /\ execResults' = PromiseAll(inv, order)
    /\ pc' = "idle"
    /\ UNCHANGED <<sessionVars, configVars, componentVars,
                   streamVars, mode, step, toolCalls,
                   policy, inv, order, thrown, runs, llmCalls, batches,
                   invoked, hooked, runBase, callBase, failedAt, request,
                   fed, yielded>>

(***************************************************************************)
(* ToolRegistry (tool/registry.ts) used directly.  tools is the Map from   *)
(* name to Tool: a sequence of tools in the Map's insertion order, no two  *)
(* of them with the same name.                                             *)
(***************************************************************************)
MaxOps == 3             \* registrations and removals made on the registry

Tool(name, description, parameters, execute) ==
    [name |-> name, description |-> description, parameters |-> parameters,
     execute |-> execute]

\* two tools of each name, which differ in everything else
RegistryTools ==
    {Tool(n, <<"about", v>>, <<"schema", v>>, <<"executor", v>>) :
        n \in ToolNames, v \in {"first", "second"}}

Undefined == [type |-> "undefined"]

\* the position of name among the Map's keys, 0 when it is not a key
IndexOf(map, name) ==
    IF \E i \in DOMAIN map : map[i].name = name
    THEN CHOOSE i \in DOMAIN map : map[i].name = name
    ELSE 0

\* Map.has(name)
MapHas(map, name) == IndexOf(map, name) # 0

\* Map.get(name)
MapGet(map, name) ==
    IF MapHas(map, name) THEN map[IndexOf(map, name)] ELSE Undefined

\* a Map.set that keeps the value already stored under the key
MapSetIfAbsent(map, tool) ==
    IF MapHas(map, tool.name) THEN map ELSE Append(map, tool)

\* Map.set(tool.name, tool): a key already there keeps its position
MapSet(map, tool) ==
    IF MapHas(map, tool.name)
    THEN [map EXCEPT ![IndexOf(map, tool.name)] = tool]
    ELSE Append(map, tool)

\* a Map.delete that removes nothing
MapDeleteNothing(map, name) == map

\* Map.delete(name)
MapDelete(map, name) == SelectSeq(map, LAMBDA t : t.name # name)

\* registerMany(tools): for (const tool of tools) this.register(tool)
RECURSIVE RegisterAll(_, _)
RegisterAll(map, ts) ==
    IF ts = <<>> THEN map
    ELSE RegisterAll(MapSet(map, Head(ts)), Tail(ts))

\* a ToolNotFoundError that does not name the tool
ToolNotFoundErrorUnnamed(toolName) ==
    [kind |-> "throw", code |-> "TOOL_NOT_FOUND",
     message |-> <<"Tool not found: ">>]

\* ToolNotFoundError (utils.ts)
ToolNotFoundError(toolName) ==
    [kind |-> "throw", code |-> "TOOL_NOT_FOUND",
     message |-> <<"Tool not found: ", toolName>>]

\* the value a method returned
Value(v) == [kind |-> "return", value |-> v]

\* a definition that hands out the whole tool, executor included
ToolDefinitionWhole(tool) == tool

\* one { name, description, parameters } of toToolDefinitions
ToolDefinition(tool) ==
    [name |-> tool.name, description |-> tool.description,
     parameters |-> tool.parameters]

\* what the latest operation was and how it ended
Op(name, arg, result) == [op |-> name, arg |-> arg, result |-> result]

NoOp == Op("none", <<>>, Value(Undefined))

Registered(tool) == [op |-> "register", name |-> tool.name, tool |-> tool]
Removed(name)    == [op |-> "unregister", name |-> name]
Cleared          == [op |-> "clear"]

RegistryIdle == mode = "registry"

ReadFrame == UNCHANGED <<agentVars, mcpVars, tools, log>>

\* register(tool)
Register(tool) ==
    /\ RegistryIdle
    /\ Len(log) < MaxOps
    /\ before' = tools
    /\ tools' = MapSet(tools, tool)
    /\ returned' = Op("register", tool, Value("this"))
    /\ log' = Append(log, Registered(tool))
    /\ UNCHANGED <<agentVars, mcpVars>>

\* registerMany(tools)
RegisterMany(ts) ==
    /\ RegistryIdle
    /\ Len(log) + Len(ts) <= MaxOps
    /\ before' = tools
    /\ tools' = RegisterAll(tools, ts)
    /\ returned' = Op("registerMany", ts, Value("this"))
    /\ log' = log \o [i \in DOMAIN ts |-> Registered(ts[i])]
    /\ UNCHANGED <<agentVars, mcpVars>>

\* unregister(name)
Unregister(name) ==
    /\ RegistryIdle
    /\ Len(log) < MaxOps
    /\ before' = tools
    /\ tools' = MapDelete(tools, name)
    /\ returned' = Op("unregister", name, Value(MapHas(tools, name)))
    /\ log' = Append(log, Removed(name))
    /\ UNCHANGED <<agentVars, mcpVars>>

\* clear()
Clear ==
    /\ RegistryIdle
    /\ Len(log) < MaxOps
    /\ before' = tools
    /\ tools' = <<>>
    /\ returned' = Op("clear", <<>>, Value(Undefined))
    /\ log' = Append(log, Cleared)
    /\ UNCHANGED <<agentVars, mcpVars>>

\* get(name)
Get(name) ==
    /\ RegistryIdle
    /\ before' = tools
    /\ returned' = Op("get", name, Value(MapGet(tools, name)))
    /\ ReadFrame

\* getOrThrow(name)
GetOrThrow(name) ==
    /\ RegistryIdle
    /\ before' = tools
    /\ returned' = Op("getOrThrow", name,
                      IF MapGet(tools, name) = Undefined
                      THEN ToolNotFoundError(name)
                      ELSE Value(MapGet(tools, name)))
    /\ ReadFrame

\* has(name)
Has(name) ==
    /\ RegistryIdle
    /\ before' = tools
    /\ returned' = Op("has", name, Value(MapHas(tools, name)))
    /\ ReadFrame

\* Array.from(this.tools.values())
MapValues(map) == map

\* keys listed from the latest one back
MapKeysReversed(map) == [i \in DOMAIN map |-> map[Len(map) + 1 - i].name]

\* Array.from(this.tools.keys())
MapKeys(map) == [i \in DOMAIN map |-> map[i].name]

\* this.tools.size
MapSize(map) == Len(map)

\* this.list().map((tool) => ({ name, description, parameters }))
ToolDefinitions(map) ==
    [i \in DOMAIN map |-> ToolDefinition(MapValues(map)[i])]

\* list()
List ==
    /\ RegistryIdle
    /\ before' = tools
    /\ returned' = Op("list", <<>>, Value(MapValues(tools)))
    /\ ReadFrame

\* names()
Names ==
    /\ RegistryIdle
    /\ before' = tools
    /\ returned' = Op("names", <<>>, Value(MapKeys(tools)))
    /\ ReadFrame

\* size()
Size ==
    /\ RegistryIdle
    /\ before' = tools
    /\ returned' = Op("size", <<>>, Value(MapSize(tools)))
    /\ ReadFrame

\* toToolDefinitions()
ListDefinitions ==
    /\ RegistryIdle
    /\ before' = tools
    /\ returned' = Op("toToolDefinitions", <<>>, Value(ToolDefinitions(tools)))
    /\ ReadFrame

\* the lists handed to registerMany
ToolLists ==
    { <<>>,
      <<Tool("echo", <<"about", "first">>, <<"schema", "first">>,
             <<"executor", "first">>),
        Tool("fail", <<"about", "first">>, <<"schema", "first">>,
             <<"executor", "first">>)>>,
      <<Tool("fail", <<"about", "second">>, <<"schema", "second">>,
             <<"executor", "second">>),
        Tool("echo", <<"about", "second">>, <<"schema", "second">>,
             <<"executor", "second">>),
        Tool("fail", <<"about", "first">>, <<"schema", "first">>,
             <<"executor", "first">>)>> }

(***************************************************************************)
(* MCPManager and MCPClient (mcp/manager.ts, mcp/client.ts).  mcp holds    *)
(* the MCPClient objects created so far, clients is the manager's Map from *)
(* server name to one of them.  A client object is                         *)
(*   connected  its field connected                                        *)
(*   opening    where the addServer that created it stands: "connecting",  *)
(*              "listing", "listed" (its tools were handed out), "failed"  *)
(*   closing    its latest disconnect(): "none", "pending" (suspended in   *)
(*              client.close()), "resolved", "rejected"                    *)
(***************************************************************************)
MaxClients == 2         \* MCPClient objects created
MaxServers == 1         \* of them, where teardown and tool calls are explored

ServerNames == {"files", "search"}

MCPClient(name) ==
    [name |-> name, connected |-> FALSE, opening |-> "connecting",
     closing |-> "none"]

\* a promise that has not been made, is pending, or has settled
NoPromise == [state |-> "none"]

NotConnected == Thrown(<<"MCP client is not connected">>)

McpIdle == mode = "mcp"

McpFrame == UNCHANGED <<agentVars, registryVars>>

\* addServer(config) for a name that is tracked: throws before any await
AddServerRefused(n) ==
    /\ McpIdle
    /\ MapHas(clients, n)
    /\ refused' = refused \cup {n}
    /\ UNCHANGED <<clients, mcp, teardown, mcpCall>>
    /\ McpFrame

\* addServer(config): new MCPClient(config), suspended in client.connect()
AddServer(n) ==
    /\ McpIdle
    /\ ~MapHas(clients, n)
    /\ Len(mcp) < MaxClients
    /\ mcp' = Append(mcp, MCPClient(n))
    /\ UNCHANGED <<clients, teardown, mcpCall, refused>>
    /\ McpFrame

\* connect() resolves: connected = true, this.clients.set(name, client),
\* and addServer goes on to client.listTools()
ConnectResolves(c) ==
    /\ mcp[c].opening = "connecting"
    /\ mcp' = [mcp EXCEPT ![c].connected = TRUE, ![c].opening = "listing"]
    /\ clients' = MapSet(clients, [name |-> mcp[c].name, client |-> c])
    /\ UNCHANGED <<teardown, mcpCall, refused>>
    /\ McpFrame

\* connect() rejects: addServer rejects, nothing is tracked
ConnectRejects(c) ==
    /\ mcp[c].opening = "connecting"
    /\ mcp' = [mcp EXCEPT ![c].opening = "failed"]
    /\ UNCHANGED <<clients, teardown, mcpCall, refused>>
    /\ McpFrame

\* the remote listTools resolves: addServer resolves to the adapted tools
ListResolves(c) ==
    /\ mcp[c].opening = "listing"
    /\ mcp' = [mcp EXCEPT ![c].opening = "listed"]
    /\ UNCHANGED <<clients, teardown, mcpCall, refused>>
    /\ McpFrame

\* the remote listTools rejects: addServer rejects, the client stays tracked
ListRejects(c) ==
    /\ mcp[c].opening = "listing"
    /\ mcp' = [mcp EXCEPT ![c].opening = "failed"]
    /\ UNCHANGED <<clients, teardown, mcpCall, refused>>
    /\ McpFrame

\* MCPClient.disconnect() up to its first await
Disconnect(client) ==
    IF ~client.connected
    THEN [client EXCEPT !.closing = "resolved"]
    ELSE [client EXCEPT !.closing = "pending"]

\* a disconnect that is not invoked
DisconnectSkipped(client) == client

\* the clients the manager tracks
Tracked == {clients[i].client : i \in DOMAIN clients}

\* isServerConnected(name): this.clients.get(name)?.isConnected() ?? false
IsServerConnected(map, n) ==
    IF MapHas(map, n) THEN mcp[MapGet(map, n).client].connected ELSE FALSE

\* disconnectAll(): disconnect() is called on every tracked client, then
\* Promise.all of the promises is awaited.  It is called when no close() of
\* an earlier call is still pending.
DisconnectAll ==
    /\ McpIdle
    /\ teardown.state # "pending"
    /\ \A c \in DOMAIN mcp : mcp[c].closing # "pending"
    /\ mcp' = [c \in DOMAIN mcp |->
                 IF c \in Tracked THEN Disconnect(mcp[c]) ELSE mcp[c]]
    /\ teardown' = [state |-> "pending", targets |-> Tracked,
                    invoked |-> {c \in Tracked : mcp'[c].closing # "none"}]
    /\ UNCHANGED <<clients, mcpCall, refused>>
    /\ McpFrame

\* client.close() resolves: connected = false, transport = null
CloseResolves(c) ==
    /\ mcp[c].closing = "pending"
    /\ mcp' = [mcp EXCEPT ![c].connected = FALSE, ![c].closing = "resolved"]
    /\ UNCHANGED <<clients, teardown, mcpCall, refused>>
    /\ McpFrame

\* client.close() rejects: disconnect() rejects with it
CloseRejects(c) ==
    /\ mcp[c].closing = "pending"
    /\ mcp' = [mcp EXCEPT ![c].closing = "rejected"]
    /\ UNCHANGED <<clients, teardown, mcpCall, refused>>
    /\ McpFrame

\* what is tracked and connected when disconnectAll settles
Settlement(state, map) ==
    [state |-> state, targets |-> teardown.targets,
     invoked |-> teardown.invoked,
     names |-> MapKeys(map),
     connected |-> {n \in ServerNames : IsServerConnected(map, n)}]

\* Promise.all rejects with the first rejection, and this.clients.clear()
\* is not reached
DisconnectAllRejects ==
    /\ teardown.state = "pending"
    /\ \E c \in teardown.targets : mcp[c].closing = "rejected"
    /\ teardown' = Settlement("rejected", clients)
    /\ UNCHANGED <<clients, mcp, mcpCall, refused>>
    /\ McpFrame

\* Promise.all resolves; this.clients.clear()
DisconnectAllResolves ==
    /\ teardown.state = "pending"
    /\ \A c \in teardown.targets : mcp[c].closing = "resolved"
    /\ clients' = <<>>
    /\ teardown' = Settlement("resolved", <<>>)
    /\ UNCHANGED <<mcp, mcpCall, refused>>
    /\ McpFrame

\* what a remote tool call resolves to: its content parts and its flag
RemoteResults ==
    { [content |-> <<[text |-> <<"ok">>]>>, isError |-> FALSE],
      [content |-> <<[text |-> <<"no">>], [type |-> "image"]>>,
       isError |-> TRUE] }

RemoteFailures == {<<"connection closed">>}

\* the text of a content part, or its JSON.stringify
PartText(c) == IF "text" \in DOMAIN c THEN c.text ELSE <<"{", c.type, "}">>

\* callTool after the remote call resolved: the parts joined by "\n", and
\* error = output when the result is flagged isError
CallToolResult(r) ==
    LET output == Join([i \in DOMAIN r.content |-> PartText(r.content[i])],
                       <<"\n">>) IN
      ToolResult(output, r.isError, IF r.isError THEN output ELSE <<>>)

\* the executor of a tool that listTools of client c adapted is called:
\* callTool throws when the client is not connected, before its try block
McpExecute(c) ==
    /\ McpIdle
    /\ mcp[c].opening = "listed"
    /\ mcpCall.state # "pending"
    /\ mcpCall' = IF ~mcp[c].connected
                  THEN [state |-> "rejected", client |-> c,
                        result |-> NotConnected]
                  ELSE [state |-> "pending", client |-> c]
    /\ UNCHANGED <<clients, mcp, teardown, refused>>
    /\ McpFrame

\* the remote call resolves
RemoteReturns(r) ==
    /\ mcpCall.state = "pending"
    /\ mcpCall' = [state |-> "resolved", client |-> mcpCall.client,
                   result |-> CallToolResult(r)]
    /\ UNCHANGED <<clients, mcp, teardown, refused>>
    /\ McpFrame

\* the remote call rejects: caught, { output: "", error: message }
RemoteFails(m) ==
    /\ mcpCall.state = "pending"
    /\ mcpCall' = [state |-> "resolved", client |-> mcpCall.client,
                   result |-> ToolResult(<<>>, TRUE, m)]
    /\ UNCHANGED <<clients, mcp, teardown, refused>>
    /\ McpFrame

(***************************************************************************)
(* LLMClient.stream (llm/client.ts): the events of the backend's response  *)
(* stream, and the LLMEvents the adapter yields for them.  A field that    *)
(* the backend leaves out is a field the record does not have.             *)
(***************************************************************************)
OutputTextDelta(d) == [type |-> "response.output_text.delta", delta |-> d]

ItemAdded(item) == [type |-> "response.output_item.added", item |-> item]

ArgumentsDelta(itemId, d) ==
    [type |-> "response.function_call_arguments.delta", item_id |-> itemId,
     delta |-> d]

ItemDone(item) == [type |-> "response.output_item.done", item |-> item]

Completed(st) == [type |-> "response.completed", status |-> st]

\* r.field ?? default
OrElse(r, field, default) == IF field \in DOMAIN r THEN r[field] ELSE default

MapResponseStatus(st) ==
    CASE st = "completed" -> "stop"
      [] st = "incomplete" -> "max_tokens"
      [] st = "failed" -> "error"
      [] OTHER -> "stop"

\* toolCalls.set(key, v)
PutCall(map, key, v) ==
    [x \in DOMAIN map \cup {key} |-> IF x = key THEN v ELSE map[x]]

\* the state of the generator: its Map toolCalls, its finishReason, and the
\* events it has yielded
StreamState(calls, reason, out) ==
    [toolCalls |-> calls, finishReason |-> reason, out |-> out]

\* one pass of the for await loop over the backend's events
AdaptEvent(st, e) ==
    CASE e.type = "response.output_text.delta" ->
           [st EXCEPT !.out = Append(@, TextDelta(e.delta))]
      [] e.type = "response.function_call_arguments.delta" ->
           LET callId == e.item_id
               existing == IF callId \in DOMAIN st.toolCalls
                           THEN st.toolCalls[callId]
                           ELSE [id |-> callId, name |-> "",
                                 arguments |-> <<>>]
           IN [st EXCEPT
                 !.toolCalls =
                    PutCall(@, callId,
                            [existing EXCEPT !.arguments = @ \o e.delta]),
                 !.out = Append(@, ToolCallDelta(callId, e.delta))]
      [] e.type = "response.output_item.added"
            /\ e.item.type = "function_call" ->
           LET callId == OrElse(e.item, "id", "")
               id == OrElse(e.item, "call_id", callId)
               name == OrElse(e.item, "name", "")
           IN [st EXCEPT
                 !.toolCalls =
                    PutCall(@, callId,
                            [id |-> id, name |-> name, arguments |-> <<>>]),
                 !.out = Append(@, ToolCallStart(id, name))]
      [] e.type = "response.output_item.done"
            /\ e.item.type = "function_call"
            /\ OrElse(e.item, "id", "") \in DOMAIN st.toolCalls ->
           LET callId == OrElse(e.item, "id", "")
               existing == st.toolCalls[callId]
               name == OrElse(e.item, "name", existing.name)
               arguments == OrElse(e.item, "arguments", existing.arguments)
           IN [st EXCEPT
                 !.toolCalls =
                    PutCall(@, callId,
                            [id |-> existing.id, name |-> name,
                             arguments |-> arguments]),
                 !.out = Append(@, ToolCallEnd(existing.id, name, arguments))]
      [] e.type = "response.completed" ->
           [st EXCEPT !.finishReason =
                         MapResponseStatus(OrElse(e, "status", "completed"))]
      [] OTHER -> st

RECURSIVE Adapt(_, _)
Adapt(st, events) ==
    IF events = <<>> THEN st
    ELSE Adapt(AdaptEvent(st, Head(events)), Tail(events))

\* the generator after the first k events of the backend
AdaptedUpTo(events, k) ==
    Adapt(StreamState(EmptyMap, "stop", <<>>), SubSeq(events, 1, k))

\* a generator that goes on to its finish event after the catch block
LLMStreamFinishing(b) ==
    LET st == AdaptedUpTo(b.events, Len(b.events)) IN
      (IF b.fails THEN Append(st.out, ErrorEvent("BackendError")) ELSE st.out)
        \o <<Finish(st.finishReason)>>

\* what stream yields for a backend stream: the events of the loop and
\* then finish, or the error event of the catch block when the backend
\* fails, while it is opened (no events) or after its last event
LLMStream(b) ==
    LET st == AdaptedUpTo(b.events, Len(b.events)) IN
      IF b.fails THEN Append(st.out, ErrorEvent("BackendError"))
      ELSE Append(st.out, Finish(st.finishReason))

FunctionCall(fields) == [type |-> "function_call"] @@ fields

Backend(events, fails) == [events |-> events, fails |-> fails]

\* backends: text only; one call whose item has no call_id; one call whose
\* item id and call id differ; two such calls with interleaved fragments;
\* two calls without call_id, interleaved, whose done items carry no
\* arguments; a stream that fails; a response that ends with status failed;
\* a stream that cannot be opened
BackendStreams ==
    { Backend(<<OutputTextDelta(<<"x">>), OutputTextDelta(<<"y">>),
                Completed("completed")>>, FALSE),
      Backend(<<ItemAdded(FunctionCall([id |-> "c1", name |-> "echo"])),
                ArgumentsDelta("c1", <<"{">>),
                ArgumentsDelta("c1", <<"}">>),
                ItemDone(FunctionCall([id |-> "c1", name |-> "echo",
                                       arguments |-> <<"{", "}">>])),
                Completed("completed")>>, FALSE),
      Backend(<<ItemAdded(FunctionCall([id |-> "fc1", call_id |-> "c1",
                                        name |-> "echo"])),
                ArgumentsDelta("fc1", <<"{">>),
                ArgumentsDelta("fc1", <<"}">>),
                ItemDone(FunctionCall([id |-> "fc1", call_id |-> "c1",
                                       name |-> "echo",
                                       arguments |-> <<"{", "}">>])),
                Completed("completed")>>, FALSE),
      Backend(<<ItemAdded(FunctionCall([id |-> "fc1", call_id |-> "c1",
                                        name |-> "echo"])),
                ItemAdded(FunctionCall([id |-> "fc2", call_id |-> "c2",
                                        name |-> "echo"])),
                ArgumentsDelta("fc1", <<"{">>),
                ArgumentsDelta("fc2", <<"{">>),
                ArgumentsDelta("fc2", <<"}">>),
                ArgumentsDelta("fc1", <<"}">>),
                ItemDone(FunctionCall([id |-> "fc1", call_id |-> "c1",
                                       name |-> "echo",
                                       arguments |-> <<"{", "}">>])),
                ItemDone(FunctionCall([id |-> "fc2", call_id |-> "c2",
                                       name |-> "echo",
                                       arguments |-> <<"{", "}">>])),
                Completed("incomplete")>>, FALSE),
      Backend(<<OutputTextDelta(<<"x">>),
                ItemAdded(FunctionCall([id |-> "c1", name |-> "echo"])),
                ItemAdded(FunctionCall([id |-> "c2", name |-> "echo"])),
                ArgumentsDelta("c1", <<"{">>),
                ArgumentsDelta("c2", <<"{">>),
                ArgumentsDelta("c1", <<"}">>),
                ItemDone(FunctionCall([id |-> "c1", name |-> "echo"])),
                ItemDone(FunctionCall([id |-> "c2", name |-> "echo"])),
                Completed("completed")>>, FALSE),
      Backend(<<OutputTextDelta(<<"x">>)>>, TRUE),
      Backend(<<OutputTextDelta(<<"x">>), Completed("failed")>>, FALSE),
      Backend(<<>>, TRUE) }

\* what llm.stream may deliver for one step, the backend being one of these
AdaptedStreams == {LLMStream(b) : b \in BackendStreams}

(***************************************************************************)
(* Specifications.                                                         *)
(***************************************************************************)
InitCommon ==
    /\ messages = <<>>
    /\ status = "idle"
    /\ registry = ToolNames
    /\ pc = "idle"
    /\ step = 0
    /\ toolCalls = <<>>
    /\ policy = "all"
    /\ inv = <<>>
    /\ order = <<>>
    /\ execResults = <<>>
    /\ evq = <<>>
    /\ currentText = <<>>
    /\ content = <<>>
    /\ toolCallBuffers = EmptyMap
    /\ outcome = "none"
    /\ thrown = "none"
    /\ runs = 0
    /\ llmCalls = 0
    /\ batches = 0
    /\ invoked = 0
    /\ hooked = 0
    /\ runBase = 0
    /\ callBase = <<>>
    /\ failedAt = 0
    /\ request = NoRequest
    /\ fed = <<>>
    /\ yielded = <<>>
    /\ tools = <<>>
    /\ log = <<>>
    /\ before = <<>>
    /\ returned = NoOp
    /\ clients = <<>>
    /\ mcp = <<>>
    /\ teardown = NoPromise
    /\ mcpCall = NoPromise
    /\ refused = {}

\* an Agent (its executor has no options) and one fresh session
Init ==
    /\ InitCommon
    /\ mode = "none"
    /\ maxSteps \in 0..MaxStepsBound
    /\ options = DefaultOptions
    /\ onEvent = NoCallback

Next ==
    \/ \E t \in UserTexts : RunStart(t)
    \/ \E t \in UserTexts, evs \in EventStreams : StreamStart(t, evs)
    \/ \E c \in Responses : LLMReturns(c)
    \/ LLMFails
    \/ \E i \in DOMAIN inv, r \in ToolOutcomes("echo") : ToolReturns(i, r)
    \/ \E i \in DOMAIN inv, r \in ToolOutcomes("echo") : ToolThrows(i, r)
    \/ \E evs \in EventStreams \cup {<<>>} : ToolsDone(evs)
    \/ StreamTextDelta
    \/ StreamToolCallStart
    \/ StreamToolCallDelta
    \/ StreamToolCallEnd
    \/ StreamFinish
    \/ \E e \in StreamErrors : StreamError(e)
    \/ StreamEnd

Spec == Init /\ [][Next]_vars

\* an Agent whose stream calls may be closed by their consumer
NextConsumer ==
    \/ Next
    \/ StreamReturn
    \/ \E e \in StreamErrors : StreamReturnInCatch(e)

SpecConsumer == Init /\ [][NextConsumer]_vars

\* a call is started where the steps it may take fit into the exploration
StepsLeft == StepsTaken + maxSteps <= MaxTotalSteps

\* the inference call settles, or the inference stream delivers its next
\* event or ends
InferenceSettles ==
    \/ \E c \in Responses : LLMReturns(c)
    \/ LLMFails
    \/ StreamTextDelta
    \/ StreamToolCallStart
    \/ StreamToolCallDelta
    \/ StreamToolCallEnd
    \/ StreamFinish
    \/ \E e \in StreamErrors : StreamError(e)
    \/ StreamEnd

\* a tool invocation settles
ToolSettles ==
    \/ \E i \in DOMAIN inv, r \in ToolOutcomes("echo") : ToolReturns(i, r)
    \/ \E i \in DOMAIN inv, r \in ToolOutcomes("echo") : ToolThrows(i, r)

\* the continuation of await executeAll(...) runs
BatchResumes == \E evs \in EventStreams \cup {<<>>} : ToolsDone(evs)

NextLive ==
    \/ \E t \in UserTexts : StepsLeft /\ RunStart(t)
    \/ \E t \in UserTexts, evs \in EventStreams :
          StepsLeft /\ StreamStart(t, evs)
    \/ InferenceSettles
    \/ ToolSettles
    \/ BatchResumes

\* an Agent whose inference calls, inference streams and tool invocations
\* settle, and whose stream calls are consumed to their end
SpecLive ==
    /\ Init
    /\ [][NextLive]_vars
    /\ WF_vars(InferenceSettles)
    /\ WF_vars(ToolSettles)
    /\ WF_vars(BatchResumes)

\* a ToolExecutor with any options, handed batches of calls
InitExec ==
    /\ InitCommon
    /\ mode = "exec"
    /\ maxSteps = 0
    /\ options \in ExecutorOptions
    /\ onEvent = NoCallback

AllOutcomes == UNION {ToolOutcomes(n) : n \in ToolNames}

NextExec ==
    \/ \E calls \in ExecBatches, pol \in {"all", "sequential"} :
          ExecStart(calls, pol)
    \/ \E i \in DOMAIN inv : BeforeHookReturns(i)
    \/ \E i \in DOMAIN inv, m \in HookMessages : BeforeHookThrows(i, m)
    \/ \E i \in DOMAIN inv, r \in AllOutcomes : ToolReturns(i, r)
    \/ \E i \in DOMAIN inv, r \in AllOutcomes : ToolThrows(i, r)
    \/ \E i \in DOMAIN inv : TimeoutFires(i)
    \/ \E i \in DOMAIN inv : LoserSettles(i)
    \/ \E i \in DOMAIN inv : TimerLoses(i)
    \/ \E i \in DOMAIN inv : AfterHookReturns(i)
    \/ \E i \in DOMAIN inv, m \in HookMessages : AfterHookThrows(i, m)
    \/ \E i \in DOMAIN inv : SequentialNext(i)
    \/ ExecDone

SpecExec == InitExec /\ [][NextExec]_vars

\* an Agent configured with any onEvent callback, driven through run
InitEvents ==
    /\ InitCommon
    /\ mode = "none"
    /\ maxSteps \in 0..MaxStepsBound
    /\ options = DefaultOptions
    /\ onEvent \in Callbacks \cup {NoCallback}

NextRun ==
    \/ \E t \in UserTexts : RunStart(t)
    \/ \E c \in Responses : LLMReturns(c)
    \/ LLMFails
    \/ \E i \in DOMAIN inv, r \in ToolOutcomes("echo") : ToolReturns(i, r)
    \/ \E i \in DOMAIN inv, r \in ToolOutcomes("echo") : ToolThrows(i, r)
    \/ ToolsDone(<<>>)

SpecEvents == InitEvents /\ [][NextRun]_vars

\* an Agent with room for several steps, whose tools are registered and
\* unregistered as it goes
InitRegistry ==
    /\ InitCommon
    /\ mode = "none"
    /\ maxSteps = MaxStepsBound
    /\ options = DefaultOptions
    /\ onEvent = NoCallback

NextRegistry ==
    \/ Next
    \/ \E n \in HostTools : RegisterTool(n)
    \/ \E n \in HostTools : UnregisterTool(n)

SpecRegistry == InitRegistry /\ [][NextRegistry]_vars

\* a ToolRegistry, empty as constructed, used directly
InitTools ==
    /\ InitCommon
    /\ mode = "registry"
    /\ maxSteps = 0
    /\ options = DefaultOptions
    /\ onEvent = NoCallback

NextTools ==
    \/ \E t \in RegistryTools : Register(t)
    \/ \E ts \in ToolLists : RegisterMany(ts)
    \/ \E n \in ToolNames : Unregister(n)
    \/ Clear
    \/ \E n \in ToolNames : Get(n)
    \/ \E n \in ToolNames : GetOrThrow(n)
    \/ \E n \in ToolNames : Has(n)
    \/ List
    \/ Names
    \/ Size
    \/ ListDefinitions

SpecTools == InitTools /\ [][NextTools]_vars

\* an MCPManager, with no server as constructed
InitMCP ==
    /\ InitCommon
    /\ mode = "mcp"
    /\ maxSteps = 0
    /\ options = DefaultOptions
    /\ onEvent = NoCallback

NextMCP ==
    \/ \E n \in ServerNames : Len(mcp) < MaxServers /\ AddServer(n)
    \/ \E n \in ServerNames : AddServerRefused(n)
    \/ \E c \in DOMAIN mcp : ConnectResolves(c)
    \/ \E c \in DOMAIN mcp : ConnectRejects(c)
    \/ \E c \in DOMAIN mcp : ListResolves(c)
    \/ \E c \in DOMAIN mcp : ListRejects(c)
    \/ DisconnectAll
    \/ \E c \in DOMAIN mcp : CloseResolves(c)
    \/ \E c \in DOMAIN mcp : CloseRejects(c)
    \/ DisconnectAllRejects
    \/ DisconnectAllResolves
    \/ \E c \in DOMAIN mcp : McpExecute(c)
    \/ \E r \in RemoteResults : RemoteReturns(r)
    \/ \E m \in RemoteFailures : RemoteFails(m)

SpecMCP == InitMCP /\ [][NextMCP]_vars

\* an MCPManager whose addServer calls overlap
NextServers ==
    \/ \E n \in ServerNames : AddServer(n)
    \/ \E n \in ServerNames : AddServerRefused(n)
    \/ \E c \in DOMAIN mcp : ConnectResolves(c)
    \/ \E c \in DOMAIN mcp : ConnectRejects(c)
    \/ \E c \in DOMAIN mcp : ListResolves(c)
    \/ \E c \in DOMAIN mcp : ListRejects(c)

SpecServers == InitMCP /\ [][NextServers]_vars

\* an Agent with one or two steps, whose inference stream is what
\* LLMClient.stream yields for one of the backends
InitAdapter ==
    /\ InitCommon
    /\ mode = "none"
    /\ maxSteps \in 1..2
    /\ options = DefaultOptions
    /\ onEvent = NoCallback

NextAdapter ==
    \/ \E t \in UserTexts, evs \in AdaptedStreams : StreamStart(t, evs)
    \/ \E i \in DOMAIN inv, r \in ToolOutcomes("echo") : ToolReturns(i, r)
    \/ \E i \in DOMAIN inv, r \in ToolOutcomes("echo") : ToolThrows(i, r)
    \/ ToolsDone(<<Finish("stop")>>)
    \/ StreamTextDelta
    \/ StreamToolCallStart
    \/ StreamToolCallDelta
    \/ StreamToolCallEnd
    \/ StreamFinish
    \/ \E e \in StreamErrors : StreamError(e)
    \/ StreamEnd

SpecAdapter == InitAdapter /\ [][NextAdapter]_vars

\* either of the two: an Agent with its session, or a ToolExecutor alone
SpecBoth == (Init \/ InitExec) /\ [][Next \/ NextExec]_vars

(***************************************************************************)
(* Vocabulary of the properties.                                           *)
(***************************************************************************)
\* t occurs in s as a contiguous run of tokens
Contains(s, t) ==
    \E i \in 0..(Len(s) - Len(t)) : SubSeq(s, i + 1, i + Len(t)) = t

\* the places <<m, b>> of the blocks of type ty in the transcript
BlocksOfType(ty) ==
    UNION { { <<m, b>> : b \in { k \in 1..Len(messages[m].content) :
                                    messages[m].content[k].type = ty } } :
            m \in 1..Len(messages) }

BlockAt(p) == messages[p[1]].content[p[2]]

\* the tool_result blocks of the transcript that carry the identifier id
ResultsFor(id) ==
    { p \in BlocksOfType("tool_result") : BlockAt(p).toolCallId = id }

CallsFor(id) == { p \in BlocksOfType("tool_call") : BlockAt(p).id = id }

\* the indices of the messages appended by the call in flight (or the last one)
OwnMessages == (runBase + 1)..Len(messages)

OwnAssistant == { m \in OwnMessages : messages[m].role = "assistant" }

OwnTool == { m \in OwnMessages : messages[m].role = "tool" }

HasToolCalls(m) == Len(ToolCallsOf(messages[m].content)) > 0

\* a run / stream call on the session has settled
Settled(m) == mode = m /\ pc = "idle" /\ outcome # "none"

\* the loop of the settled call was left by break: its last message is the
\* assistant message of a response without tool calls
LeftByBreak ==
    /\ Len(messages) > runBase + 1
    /\ messages[Len(messages)].role = "assistant"
    /\ ~HasToolCalls(Len(messages))

(***************************************************************************)
(* C1.  As claimed: when run returns successfully, each tool_call block of *)
(* the transcript has exactly one tool_result block with its id, and that  *)
(* block is in a later message.                                            *)
(***************************************************************************)
C1_ExactlyOneResultPerCall ==
    (Settled("run") /\ outcome = "returned") =>
        \A p \in BlocksOfType("tool_call") :
            /\ Cardinality(ResultsFor(BlockAt(p).id)) = 1
            /\ \A r \in ResultsFor(BlockAt(p).id) : r[1] > p[1]

(***************************************************************************)
(* C1, amended.  When run returns successfully, every assistant message    *)
(* appended by that run that holds tool calls is followed at once by a     *)
(* tool message whose i-th block is a tool_result carrying the id of the   *)
(* i-th tool call; so the run appended, for every id, as many tool_result  *)
(* blocks as tool_call blocks (exactly one where ids are not shared).      *)
(***************************************************************************)
C1_AnsweredInPlace ==
    (Settled("run") /\ outcome = "returned") =>
        /\ \A m \in OwnAssistant : HasToolCalls(m) =>
              /\ m < Len(messages)
              /\ messages[m + 1].role = "tool"
              /\ LET tcs == ToolCallsOf(messages[m].content)
                     res == messages[m + 1].content IN
                   /\ Len(res) = Len(tcs)
                   /\ \A i \in 1..Len(tcs) :
                         /\ res[i].type = "tool_result"
                         /\ res[i].toolCallId = tcs[i].id
        /\ \A p \in BlocksOfType("tool_call") : p[1] \in OwnMessages =>
              Cardinality({ r \in ResultsFor(BlockAt(p).id) : r[1] \in OwnMessages })
                = Cardinality({ c \in CallsFor(BlockAt(p).id) : c[1] \in OwnMessages })

\* run has returned successfully after a response whose tool calls share an id
C1_Witness ==
    /\ Settled("run")
    /\ outcome = "returned"
    /\ \E m \in OwnAssistant :
          LET tcs == ToolCallsOf(messages[m].content) IN
            Len(tcs) = 2 /\ tcs[1].id = tcs[2].id

(***************************************************************************)
(* C2.  As claimed: for maxSteps >= 1, when the first response holds no    *)
(* tool call, run makes exactly one inference call, appends exactly one    *)
(* assistant message and no tool message, returns, and leaves the session  *)
(* completed.                                                              *)
(***************************************************************************)
C2_OneStepCompletes ==
    ( /\ Settled("run")
      /\ maxSteps >= 1
      /\ Len(messages) >= runBase + 2
      /\ messages[runBase + 2].role = "assistant"
      /\ ~HasToolCalls(runBase + 2) )
    => /\ llmCalls = 1
       /\ Cardinality(OwnAssistant) = 1
       /\ OwnTool = {}
       /\ outcome = "returned"
       /\ status = "completed"

(***************************************************************************)
(* C3.  As claimed, for run and stream: a call whose step k <= maxSteps    *)
(* gets a response without tool calls ends successfully with status        *)
(* completed, and MaxStepsExceeded is raised only when each of maxSteps    *)
(* responses held a tool call.                                             *)
(***************************************************************************)
C3_CompletesAtAnyStep ==
    (Settled("run") \/ Settled("stream")) =>
        /\ LeftByBreak => (outcome = "returned" /\ status = "completed")
        /\ thrown = "MaxStepsExceeded" =>
              /\ Cardinality(OwnAssistant) = maxSteps
              /\ \A m \in OwnAssistant : HasToolCalls(m)

(***************************************************************************)
(* C4.  When every inference response of a run holds a tool call (and no   *)
(* inference call fails), run makes exactly maxSteps inference calls and   *)
(* awaits exactly maxSteps tool batches, then fails with                   *)
(* MaxStepsExceeded; the session ends in error, not completed.             *)
(***************************************************************************)
C4_ExhaustsMaxSteps ==
    ( /\ Settled("run")
      /\ failedAt = 0
      /\ \A m \in OwnAssistant : HasToolCalls(m) )
    => /\ llmCalls = maxSteps
       /\ batches = maxSteps
       /\ Cardinality(OwnAssistant) = maxSteps
       /\ Cardinality(OwnTool) = maxSteps
       /\ outcome = "threw"
       /\ thrown = "MaxStepsExceeded"
       /\ status = "error"

\* a run with maxSteps = 2 took both steps, each with tool calls, and failed
C4_Witness ==
    /\ Settled("run")
    /\ maxSteps = 2
    /\ batches = 2
    /\ thrown = "MaxStepsExceeded"
    /\ status = "error"

(***************************************************************************)
(* C5.  executeAll resolves to one result per input call, and the result   *)
(* at index i carries the id of the call at index i, in whatever order     *)
(* the invocations complete.                                               *)
(***************************************************************************)
C5_ResultsInInputOrder ==
    (mode = "exec" /\ pc = "idle" /\ outcome # "none" /\ policy = "all") =>
        /\ outcome = "returned"
        /\ Len(execResults) = Len(toolCalls)
        /\ \A i \in 1..Len(toolCalls) :
              /\ execResults[i].type = "tool_result"
              /\ execResults[i].toolCallId = toolCalls[i].id

\* executeAll([A, B, C]) has resolved after B completed first and C last
C5_Witness ==
    /\ mode = "exec"
    /\ pc = "idle"
    /\ outcome = "returned"
    /\ policy = "all"
    /\ toolCalls = <<CallA, CallB, CallC>>
    /\ order = <<2, 1, 3>>

(***************************************************************************)
(* C6.  When a tool's executor throws an error with message m during step  *)
(* k of run, the tool message of step k holds, at that call's place, a     *)
(* tool_result with isError = TRUE whose result contains m; the session    *)
(* stays running, and when k < maxSteps the loop issues the inference call *)
(* of step k + 1; the run never fails on the tool's error.                 *)
(***************************************************************************)
ThrewAt(i) == inv[i].cause = "tool"

C6_WhileAwaited ==
    (mode = "run" /\ pc = "tools") =>
        /\ status = "running"
        /\ \A i \in DOMAIN inv : ThrewAt(i) =>
              /\ inv[i].phase = "settled"
              /\ inv[i].result.isError
              /\ inv[i].result.toolCallId = toolCalls[i].id
              /\ Contains(inv[i].result.result, inv[i].message)

C6_BatchEnds ==
    (mode = "run" /\ pc = "tools" /\ pc' # "tools"
       /\ \E i \in DOMAIN inv : ThrewAt(i)) =>
        /\ Len(messages') = Len(messages) + 1
        /\ messages'[Len(messages')].role = "tool"
        /\ \A i \in DOMAIN inv : ThrewAt(i) =>
              LET res == messages'[Len(messages')].content[i] IN
                /\ res.type = "tool_result"
                /\ res.isError
                /\ res.toolCallId = toolCalls[i].id
                /\ Contains(res.result, inv[i].message)
        /\ step < maxSteps =>
              /\ pc' = "llm"
              /\ step' = step + 1
              /\ llmCalls' = llmCalls + 1
              /\ status' = "running"
              /\ outcome' = "none"
        /\ thrown' \in {"none", "MaxStepsExceeded"}

C6_ToolErrorFedBack == [][C6_WhileAwaited' /\ C6_BatchEnds]_vars

\* run issued the inference call of step 2 after a tool threw "boom" in step 1
C6_Witness ==
    /\ mode = "run"
    /\ pc = "llm"
    /\ step = 2
    /\ status = "running"
    /\ LET last == messages[Len(messages)] IN
         /\ last.role = "tool"
         /\ \E i \in 1..Len(last.content) :
               last.content[i].isError
                 /\ Contains(last.content[i].result, <<"boom">>)

(***************************************************************************)
(* C7.  execute for a call whose name is not in the registry never         *)
(* rejects: it resolves to a tool_result with the call's id, isError =     *)
(* TRUE and a message naming the missing tool, and invokes neither a tool  *)
(* executor nor a hook; inside run the tool message is appended and the    *)
(* loop goes on to the next step.                                          *)
(***************************************************************************)
Missing(i) == toolCalls[i].name \notin registry /\ inv[i].phase # "waiting"

C7_Execute ==
    /\ \A i \in DOMAIN inv : Missing(i) =>
          /\ inv[i].phase = "settled"
          /\ inv[i].result.type = "tool_result"
          /\ inv[i].result.toolCallId = toolCalls[i].id
          /\ inv[i].result.isError
          /\ Contains(inv[i].result.result, <<toolCalls[i].name>>)
          /\ inv[i].tool = "idle"
          /\ inv[i].hooks = 0
    /\ (mode = "exec" /\ pc = "idle") => outcome # "threw"

C7_BatchEnds ==
    (mode = "run" /\ pc = "tools" /\ pc' # "tools"
       /\ \E i \in DOMAIN inv : Missing(i)) =>
        /\ Len(messages') = Len(messages) + 1
        /\ messages'[Len(messages')].role = "tool"
        /\ \A i \in DOMAIN inv : Missing(i) =>
              messages'[Len(messages')].content[i] = inv[i].result
        /\ step < maxSteps =>
              /\ pc' = "llm"
              /\ step' = step + 1
              /\ status' = "running"
        /\ thrown' \in {"none", "MaxStepsExceeded"}

C7_MissingToolNeverThrows == [][C7_Execute' /\ C7_BatchEnds]_vars

\* an executor with both hooks has resolved a batch of an unknown tool and a
\* known one: the two hook calls are those of the known tool
C7_Witness ==
    /\ mode = "exec"
    /\ pc = "idle"
    /\ outcome = "returned"
    /\ options.onBeforeExecute
    /\ options.onAfterExecute
    /\ toolCalls = <<CallG, CallA>>
    /\ execResults[1] = NotFoundResult(CallG)
    /\ inv[2].hooks = 2
    /\ hooked = 2
    /\ invoked = 1

(***************************************************************************)
(* C8.  Whatever the tool executor and the two hooks do (return, throw,    *)
(* reject), with or without a timeout, execute resolves to a tool_result   *)
(* carrying the call's id and never rejects; so executeAll and             *)
(* executeSequential never reject and no tool failure ends a run.          *)
(***************************************************************************)
C8_ExecuteNeverRejects ==
    /\ \A i \in DOMAIN inv :
          /\ inv[i].phase # "rejected"
          /\ inv[i].phase = "settled" =>
                /\ inv[i].result.type = "tool_result"
                /\ inv[i].result.toolCallId = toolCalls[i].id
    /\ (mode = "exec" /\ pc = "idle" /\ batches > 0) =>
          /\ outcome = "returned"
          /\ Len(execResults) = Len(toolCalls)
          /\ \A i \in 1..Len(toolCalls) :
                execResults[i].toolCallId = toolCalls[i].id
    /\ thrown # "ToolError"
    /\ (mode \in {"run", "stream"} /\ pc = "tools") => status = "running"

\* a batch has resolved in which the pre-execution hook threw for one call,
\* the timeout beat the tool of another and the post-execution hook threw
\* for the third
C8_Witness ==
    /\ mode = "exec"
    /\ pc = "idle"
    /\ outcome = "returned"
    /\ Len(inv) = 3
    /\ inv[1].cause = "before"
    /\ inv[2].cause = "timeout"
    /\ inv[3].cause = "after"

(***************************************************************************)
(* C9.  When the inference call of step k fails in run, the run stops:     *)
(* the error is thrown, the session status is error, the transcript is    *)
(* the one handed to that call (the user message and steps 1 .. k-1, and   *)
(* no message of step k), and no tool batch is started in step k.          *)
(***************************************************************************)
C9_InferenceFailureStopsRun ==
    (Settled("run") /\ failedAt > 0) =>
        /\ outcome = "threw"
        /\ thrown = "LLMError"
        /\ status = "error"
        /\ failedAt = step
        /\ llmCalls = step
        /\ messages = callBase
        /\ messages[runBase + 1].role = "user"
        /\ Cardinality(OwnAssistant) = step - 1
        /\ Cardinality(OwnTool) = step - 1
        /\ batches = step - 1

\* the inference call of step 2 of a run has failed
C9_Witness ==
    /\ Settled("run")
    /\ failedAt = 2
    /\ Cardinality(OwnTool) = 1

(***************************************************************************)
(* C10.  In stream, when the inference stream of step k delivers an error  *)
(* event, the call ends there: no assistant message is appended for step k *)
(* (what the step accumulated is dropped), no tool batch is started in     *)
(* step k, no further inference stream is opened, the session status is    *)
(* error and the event's error is thrown to the consumer.                  *)
(***************************************************************************)
C10_StreamErrorAborts ==
    (Settled("stream") /\ failedAt > 0) =>
        /\ outcome = "threw"
        /\ thrown \in StreamErrors
        /\ status = "error"
        /\ failedAt = step
        /\ llmCalls = step
        /\ messages = callBase
        /\ Cardinality(OwnAssistant) = step - 1
        /\ Cardinality(OwnTool) = step - 1
        /\ batches = step - 1

\* the error event came after the step had accumulated text and a tool call
C10_Witness ==
    /\ Settled("stream")
    /\ failedAt > 0
    /\ currentText # <<>>
    /\ Len(toolCalls) > 0
    /\ messages = callBase

(***************************************************************************)
(* C11.  As claimed: a stream call whose last turn was fed text_delta t1,  *)
(* text_delta t2 and finish{stop}, and a run call whose last turn was fed  *)
(* the one text block t1 ++ t2, append assistant messages with the same    *)
(* text content (getTextContent gives t1 ++ t2 for both), and both leave   *)
(* the session completed.                                                  *)
(***************************************************************************)
T1 == <<"x">>
T2 == <<"y">>

\* the backend delivered, in full, f as the last turn of the settled call m
LastFed(m, f) ==
    /\ Settled(m)
    /\ failedAt = 0
    /\ fed # <<>>
    /\ fed[Len(fed)] = f

TextTurnEnd ==
    /\ GetTextContent(messages[Len(messages)]) = T1 \o T2
    /\ messages[Len(messages)].role = "assistant"
    /\ status = "completed"

C11_SameTextAndCompleted ==
    /\ LastFed("stream",
               Events(<<TextDelta(T1), TextDelta(T2), Finish("stop")>>))
          => TextTurnEnd
    /\ LastFed("run", Response(<<Text(T1 \o T2)>>)) => TextTurnEnd

(***************************************************************************)
(* C12.  As claimed: for every response content c, run fed c and stream    *)
(* fed the events that stream c end in the same state.  run appends c      *)
(* itself as the assistant message of the step, so the two transcripts     *)
(* agree exactly when, in either mode, the assistant message of every step *)
(* has the blocks of the content delivered for that step, in their order;  *)
(* and the status a call ends with depends on the steps taken alone.       *)
(***************************************************************************)
\* the event sequence that streams the content c
Streamed(c) == EventsOf(c) \o <<Finish("stop")>>

\* f delivers the content c: as a response, or as the events that stream it
Delivers(f, c) ==
    \/ f.kind = "response" /\ f.content = c
    \/ f.kind = "events" /\ f.events = Streamed(c)

\* the index of the assistant message of step k of the call
StepMessage(k) ==
    CHOOSE m \in OwnAssistant : Cardinality({j \in OwnAssistant : j <= m}) = k

C12_SameEndState ==
    mode \in {"run", "stream"} =>
        /\ \A k \in 1..Cardinality(OwnAssistant) : \A c \in Responses :
              Delivers(fed[k], c) => messages[StepMessage(k)].content = c
        /\ (pc = "idle" /\ outcome # "none" /\ failedAt = 0) =>
              status = IF step < maxSteps THEN "completed" ELSE "error"

(***************************************************************************)
(* C13.  As claimed: at the moment of every inference call (the call or    *)
(* the stream is in flight and the transcript is the one it was handed),   *)
(* every tool_call block of the transcript has exactly one tool_result     *)
(* block with its id, and every tool_result block carries the id of a      *)
(* tool_call block of an earlier message.                                  *)
(***************************************************************************)
InferenceInFlight == pc \in {"llm", "stream"}

C13_AnsweredAtEveryCall ==
    InferenceInFlight =>
        /\ \A p \in BlocksOfType("tool_call") :
              Cardinality(ResultsFor(BlockAt(p).id)) = 1
        /\ \A r \in BlocksOfType("tool_result") :
              \E p \in CallsFor(BlockAt(r).toolCallId) : p[1] < r[1]

(***************************************************************************)
(* C14.  As claimed: completed and error are terminal.  Once the status is *)
(* completed or error, no step of run or stream changes the status (it     *)
(* never returns to running) or the message list.                          *)
(***************************************************************************)
Terminal == {"completed", "error"}

C14_TerminalStatesStay ==
    [][(status \in Terminal) => (status' = status /\ messages' = messages)]_vars

(***************************************************************************)
(* C15.  As claimed: the onEvent callback has no influence on run.  With   *)
(* no callback configured, what run returns or throws, the transcript and  *)
(* the status are determined by maxSteps and by what the backend and the   *)
(* tools delivered (NoCallbackOutcome); the claim is that every settled    *)
(* run, whatever its callback does, ends as that run with no callback.     *)
(***************************************************************************)
\* the end of a run with no callback: it fails only on an inference failure
\* or on the step limit, it made one inference call per step, and every
\* response delivered is in the transcript together with its tool message
NoCallbackOutcome ==
    /\ thrown \in {"none", "LLMError", "MaxStepsExceeded"}
    /\ status = IF outcome = "returned" THEN "completed" ELSE "error"
    /\ llmCalls = step
    /\ Len(fed) = step
    /\ failedAt > 0 => (thrown = "LLMError" /\ messages = callBase)
    /\ failedAt = 0 =>
          thrown = IF step < maxSteps THEN "none" ELSE "MaxStepsExceeded"
    /\ \A k \in 1..Len(fed) : fed[k].kind = "response" =>
          /\ Cardinality(OwnAssistant) >= k
          /\ messages[StepMessage(k)].content = fed[k].content
          /\ HasToolCalls(StepMessage(k)) =>
                /\ StepMessage(k) < Len(messages)
                /\ messages[StepMessage(k) + 1].role = "tool"

C15_EmissionsDoNotAffectRun == Settled("run") => NoCallbackOutcome

(***************************************************************************)
(* C16.  Steps are strictly sequential.  An inference call is issued from  *)
(* the start of run / stream (step 1) or from the end of a tool batch      *)
(* (step n + 1); in the second case every invocation of the batch has      *)
(* settled and the assistant message and the tool message of step n are    *)
(* the last two messages of the transcript, so the call in flight has      *)
(* appended n assistant and n tool messages.  The request carries the      *)
(* system prompt, the whole transcript of that moment and the definitions  *)
(* of the tools in the registry at that moment; while the call is in       *)
(* flight the transcript stays the one it was handed.                      *)
(***************************************************************************)
Issued == pc \in {"idle", "tools"} /\ pc' \in {"llm", "stream"}

\* the messages with the given role among msgs after the first base ones
RoleCount(msgs, base, role) ==
    CountRole(SubSeq(msgs, base + 1, Len(msgs)), role)

C16_Issue ==
    Issued =>
        /\ request' = [messages |-> messages',
                       systemPrompt |-> SystemPrompt,
                       tools |-> { [name |-> t] : t \in registry' }]
        /\ pc = "idle" =>
              /\ step' = 1
              /\ messages' = Append(messages, messages'[Len(messages')])
              /\ messages'[Len(messages')].role = "user"
        /\ pc = "tools" =>
              /\ step' = step + 1
              /\ AllSettled(inv)
              /\ Len(messages') = Len(messages) + 1
              /\ messages[Len(messages)].role = "assistant"
              /\ ToolCallsOf(messages[Len(messages)].content) = toolCalls
              /\ messages'[Len(messages')].role = "tool"
              /\ Len(messages'[Len(messages')].content) = Len(toolCalls)
              /\ RoleCount(messages', runBase', "assistant") = step
              /\ RoleCount(messages', runBase', "tool") = step

C16_InFlight ==
    InferenceInFlight => (messages = request.messages /\ llmCalls = step)

C16_StrictlySequential == [][C16_Issue /\ C16_InFlight']_vars

\* run has issued the inference call of step 2 after a tool was unregistered
\* during step 1: the request lists the tools that are left
C16_Witness ==
    /\ mode = "run"
    /\ pc = "llm"
    /\ step = 2
    /\ registry # ToolNames
    /\ request.tools = { [name |-> t] : t \in registry }
    /\ Len(request.messages) = 3

(***************************************************************************)
(* C17.  The message list only grows at its end: across every step of run  *)
(* and stream, in calls that succeed and in calls that fail, the           *)
(* transcript before the step is a prefix of the transcript after it.      *)
(***************************************************************************)
IsPrefix(a, b) == Len(a) <= Len(b) /\ SubSeq(b, 1, Len(a)) = a

C17_AppendOnly == [][IsPrefix(messages, messages')]_vars

\* the second call on a session has failed after appending to the transcript
\* the first call left
C17_Witness ==
    /\ pc = "idle"
    /\ runs = 2
    /\ outcome = "threw"
    /\ runBase >= 2
    /\ Len(messages) >= runBase + 2

(***************************************************************************)
(* C18.  A failed inference call is never retried.  Every call makes one   *)
(* inference call per step and so at most maxSteps of them; once the       *)
(* inference call of step k has failed the call has ended with k inference *)
(* calls and the k - 1 tool batches of the steps before, and nothing       *)
(* happens on the session until the caller makes a new run / stream call.  *)
(***************************************************************************)
C18_Counts ==
    mode \in {"run", "stream"} =>
        /\ llmCalls = step
        /\ llmCalls <= maxSteps
        /\ failedAt > 0 =>
              /\ pc = "idle"
              /\ outcome = "threw"
              /\ llmCalls = failedAt
              /\ batches = failedAt - 1

C18_NoRetry ==
    [][C18_Counts' /\ (failedAt > 0 => (runs' = runs + 1 /\ invoked' = 0))]_vars

\* the inference stream of step 2 has failed after the tool batch of step 1
C18_Witness ==
    /\ Settled("stream")
    /\ failedAt = 2
    /\ llmCalls = 2
    /\ batches = 1
    /\ invoked >= 1

(***************************************************************************)
(* C19.  With a timeout configured, each invocation that reaches the race  *)
(* of executeWithTimeout gets its result from exactly one of the two: if   *)
(* the tool settles first the result is the tool's outcome (its ToolResult *)
(* mapped, or its error's message), if the timer fires first it is a       *)
(* tool_result with isError = TRUE and the timeout message.  The result    *)
(* is produced once, and when the loser settles later (the abandoned tool, *)
(* or the timer that is never cleared) neither the result of the           *)
(* invocation nor the results already returned change.                     *)
(***************************************************************************)
\* the results execute can produce from the tool's own outcome
ToolResultsOf(call) ==
    { MakeToolResult(call, r) :
        r \in { o \in ToolOutcomes(call.name) : o.kind = "return" } }
    \cup { ErrorResult(call, r.message) :
             r \in { o \in ToolOutcomes(call.name) : o.kind = "throw" } }

Raced(i) == options.timeout > 0 /\ inv[i].timer # "none"

Occurrences(seq, x) == Cardinality({ k \in 1..Len(seq) : seq[k] = x })

C19_OneDecides ==
    \A i \in DOMAIN inv : Raced(i) =>
        /\ inv[i].phase = "running" =>
              (inv[i].cause = "none" /\ inv[i].result = NoResult)
        /\ inv[i].cause \in {"returned", "tool"} =>
              /\ inv[i].result \in ToolResultsOf(toolCalls[i])
              /\ inv[i].tool = "done"
        /\ inv[i].cause = "timeout" =>
              /\ inv[i].phase = "settled"
              /\ inv[i].timer = "fired"
              /\ inv[i].result.type = "tool_result"
              /\ inv[i].result.toolCallId = toolCalls[i].id
              /\ inv[i].result.isError
              /\ inv[i].result.result = TimeoutMessage(options.timeout)
        /\ inv[i].phase = "settled" =>
              inv[i].cause \in {"returned", "tool", "timeout", "after"}
        /\ Occurrences(order, i) = IF inv[i].phase = "settled" THEN 1 ELSE 0

\* a step of the batch that is awaited or has just settled
SameBatch == Lingering /\ Lingering' /\ batches' = batches

C19_LoserChangesNothing ==
    SameBatch =>
        /\ \A i \in DOMAIN inv : (Raced(i) /\ inv[i].phase = "settled") =>
              /\ inv'[i].phase = "settled"
              /\ inv'[i].result = inv[i].result
              /\ inv'[i].cause = inv[i].cause
        /\ (pc = "idle" /\ pc' = "idle") => execResults' = execResults
        /\ IsPrefix(order, order')

Pending(i) == inv[i].phase \in {"before", "running", "after"}

Sequential == mode = "exec" /\ policy = "sequential"

C20_OneAfterAnother ==
    Sequential =>
        /\ \A i \in DOMAIN inv : inv[i].phase # "waiting" =>
              \A j \in 1..(i - 1) : inv[j].phase = "settled"
        /\ Cardinality({ i \in DOMAIN inv : Pending(i) }) <= 1
        /\ order = [k \in 1..Len(order) |-> k]
        /\ (pc = "exec" /\ \E i \in DOMAIN inv : inv[i].phase = "waiting")
              => ~AllDone(inv)
        /\ (pc = "idle" /\ batches > 0) =>
              /\ outcome = "returned"
              /\ Len(execResults) = Len(toolCalls)
              /\ \A i \in 1..Len(toolCalls) :
                    /\ execResults[i] = inv[i].result
                    /\ execResults[i].type = "tool_result"
                    /\ execResults[i].toolCallId = toolCalls[i].id

\* the loop goes on: when the result of call i is produced, whether or not
\* it is an error, the next step of the batch starts call i + 1
C20_GoesOn ==
    (Sequential /\ pc = "exec") =>
        \A i \in DOMAIN inv :
            ( /\ inv[i].phase = "waiting"
              /\ \A j \in 1..(i - 1) : inv[j].phase = "settled" )
            => ENABLED SequentialNext(i)

Removes(e, n) == e.op = "clear" \/ (e.op = "unregister" /\ e.name = n)

\* entry e of the log registers name n
Registers(e, n) == e.op = "register" /\ e.name = n

\* the position of the latest removal of n in log l, 0 when there is none
LastRemoval(l, n) ==
    IF \E j \in DOMAIN l : Removes(l[j], n)
    THEN CHOOSE j \in DOMAIN l :
            Removes(l[j], n) /\ \A k \in DOMAIN l : Removes(l[k], n) => k <= j
    ELSE 0

\* the registrations of n in l that no removal has followed
Standing(l, n) ==
    {i \in DOMAIN l : Registers(l[i], n) /\ i > LastRemoval(l, n)}

\* n has been registered and not unregistered or cleared since
Live(l, n) == Standing(l, n) # {}

LiveNames(l) == {n \in ToolNames : Live(l, n)}

Min(S) == CHOOSE x \in S : \A y \in S : x <= y
Max(S) == CHOOSE x \in S : \A y \in S : y <= x

\* where n entered the registry, and the tool registered under n last
EnteredAt(l, n) == Min(Standing(l, n))
LatestTool(l, n) == l[Max(Standing(l, n))].tool

\* the log when the latest operation began
Prior == IF returned.op \in {"unregister", "register", "clear"}
         THEN SubSeq(log, 1, Len(log) - 1)
         ELSE IF returned.op = "registerMany"
              THEN SubSeq(log, 1, Len(log) - Len(returned.arg))
              ELSE log

Returns(op) == returned.op = op /\ returned.result.kind = "return"

(***************************************************************************)
(* C21.  unregister(name) of a name that is not registered returns false,  *)
(* raises nothing and leaves the registry as it was; of a registered name  *)
(* it returns true, after which has(name) is false, get(name) is undefined *)
(* and every other registration is as before.                              *)
(***************************************************************************)
C21_Unregister ==
    returned.op = "unregister" =>
        LET n == returned.arg IN
        IF ~Live(Prior, n)
        THEN /\ returned.result = Value(FALSE)
             /\ tools = before
        ELSE /\ returned.result = Value(TRUE)
             /\ ~MapHas(tools, n)
             /\ MapGet(tools, n) = Undefined
             /\ MapSize(tools) = MapSize(before) - 1
             /\ \A m \in ToolNames \ {n} :
                   /\ MapHas(tools, m) = MapHas(before, m)
                   /\ MapGet(tools, m) = MapGet(before, m)

\* a registered tool has been unregistered while another one was registered
C21_Witness ==
    /\ Returns("unregister")
    /\ returned.result.value = TRUE
    /\ MapSize(tools) > 0

(***************************************************************************)
(* C22.  register never fails on a name already registered: once t1 and    *)
(* then t2 are registered under one name, get returns t2, no lookup or     *)
(* listing hands out t1, and size counts the name once.                    *)
(***************************************************************************)
\* the tools that the latest operation handed out
Retrieved ==
    IF returned.result.kind # "return" THEN {}
    ELSE IF returned.op \in {"get", "getOrThrow"} THEN {returned.result.value}
    ELSE IF returned.op = "list"
         THEN {returned.result.value[i] : i \in DOMAIN returned.result.value}
         ELSE {}

\* the tools registered under n that a later registration under n replaced
Replaced(l, n) ==
    {l[i].tool : i \in Standing(l, n)} \ {LatestTool(l, n)}

InRegistrationOrder(s) ==
    /\ Len(s) = Cardinality(LiveNames(log))
    /\ \A n \in LiveNames(log) : \E i \in DOMAIN s : s[i] = n
    /\ \A i, j \in DOMAIN s :
          i < j => EnteredAt(log, s[i]) < EnteredAt(log, s[j])

C23_State ==
    /\ \A n \in ToolNames :
          /\ MapHas(tools, n) <=> Live(log, n)
          /\ (MapGet(tools, n) # Undefined) <=> Live(log, n)
    /\ MapSize(tools) = Cardinality(LiveNames(log))
    /\ InRegistrationOrder(MapKeys(tools))
    /\ InRegistrationOrder([i \in DOMAIN tools |-> MapValues(tools)[i].name])
    /\ returned.op = "clear" => MapSize(tools) = 0

C23_Answers ==
    /\ returned.op = "has" =>
          returned.result = Value(Live(log, returned.arg))
    /\ returned.op = "get" =>
          (returned.result.value # Undefined <=> Live(log, returned.arg))
    /\ returned.op = "size" =>
          returned.result = Value(Cardinality(LiveNames(log)))
    /\ returned.op = "names" => InRegistrationOrder(returned.result.value)
    /\ returned.op = "list" =>
          InRegistrationOrder([i \in DOMAIN returned.result.value |->
                                   returned.result.value[i].name])

C23_RegistryContents == C23_State /\ C23_Answers

\* names() has listed two names after a removal and two registrations
C23_Witness ==
    /\ Returns("names")
    /\ Len(returned.result.value) = 2
    /\ \E i \in DOMAIN log : log[i].op \in {"unregister", "clear"}

(***************************************************************************)
(* C24.  getOrThrow(name) returns the registered tool when name is         *)
(* registered, and otherwise fails with a ToolNotFound error whose message *)
(* is "Tool not found: <name>"; either way the registry is unchanged.      *)
(***************************************************************************)
C24_GetOrThrow ==
    returned.op = "getOrThrow" =>
        /\ tools = before
        /\ IF Live(log, returned.arg)
           THEN returned.result = Value(LatestTool(log, returned.arg))
           ELSE /\ returned.result.kind = "throw"
                /\ returned.result.code = "TOOL_NOT_FOUND"
                /\ returned.result.message =
                       <<"Tool not found: ", returned.arg>>

\* getOrThrow has failed for a name that is not in a registry that holds
\* another tool
C24_Witness ==
    /\ returned.op = "getOrThrow"
    /\ returned.result.kind = "throw"
    /\ MapSize(tools) > 0

(***************************************************************************)
(* C25.  toToolDefinitions returns exactly one { name, description,        *)
(* parameters } per registered tool, equal to that tool's fields, in       *)
(* registration order, with no executor in any entry, and leaves the       *)
(* registry as it was.                                                     *)
(***************************************************************************)
C25_ToToolDefinitions ==
    returned.op = "toToolDefinitions" =>
        LET defs == returned.result.value IN
        /\ returned.result.kind = "return"
        /\ tools = before
        /\ InRegistrationOrder([i \in DOMAIN defs |-> defs[i].name])
        /\ \A i \in DOMAIN defs :
              LET t == LatestTool(log, defs[i].name) IN
              /\ DOMAIN defs[i] = {"name", "description", "parameters"}
              /\ defs[i].description = t.description
              /\ defs[i].parameters = t.parameters

\* two tools are registered and toToolDefinitions has listed them
C25_Witness ==
    /\ Returns("toToolDefinitions")
    /\ Len(returned.result.value) = 2

(***************************************************************************)
(* C26.  The executor of every Tool returned by MCPClient.listTools always *)
(* resolves to a ToolResult and never rejects: a remote failure, a remote  *)
(* result flagged isError and a call made while the client is not          *)
(* connected are all reported through the error field of the ToolResult.   *)
(***************************************************************************)
C26_ExecutorNeverRejects ==
    /\ mcpCall.state # "rejected"
    /\ mcpCall.state = "resolved" => mcpCall.result.kind = "return"

\* once the remote call was made, the executor resolves to a ToolResult
C26_ResolvesOnceCalled ==
    mcpCall.state = "rejected" => mcpCall.result = NotConnected

(***************************************************************************)
(* C27.  After disconnectAll settles, whatever the outcome of each         *)
(* disconnect, disconnect has been invoked on every client that was        *)
(* tracked, and the manager tracks no server: getServerNames() is empty    *)
(* and isServerConnected(n) is false for every n.                          *)
(***************************************************************************)
TeardownSettled == teardown.state \in {"resolved", "rejected"}

C27_DisconnectsAll ==
    TeardownSettled =>
        /\ teardown.invoked = teardown.targets
        /\ teardown.names = <<>>
        /\ teardown.connected = {}

\* disconnect is invoked on every tracked client, and a disconnectAll that
\* resolves leaves no server tracked
C27_InvokedOnAll ==
    TeardownSettled =>
        /\ teardown.invoked = teardown.targets
        /\ teardown.state = "resolved" =>
              (teardown.names = <<>> /\ teardown.connected = {})

(***************************************************************************)
(* C28.  In any stream call that fails (inference error event or           *)
(* MaxStepsExceeded), exactly one error event is yielded to the consumer,  *)
(* and it is the last event yielded before the failure is thrown.          *)
(***************************************************************************)
StreamFailed == Settled("stream") /\ outcome = "threw"

C28_OneErrorEvent ==
    StreamFailed =>
        /\ Occurrences(yielded, "error") = 1
        /\ yielded[Len(yielded)] = "error"

\* the last event of a failed stream call is an error event, and a call that
\* exceeds its steps yields one error event
C28_ErrorEventLast ==
    StreamFailed =>
        /\ yielded # <<>>
        /\ yielded[Len(yielded)] = "error"
        /\ thrown = "MaxStepsExceeded" => Occurrences(yielded, "error") = 1

(***************************************************************************)
(* Vocabulary of the claims about the inference stream.                    *)
(***************************************************************************)
\* the inference stream of the step in flight, and the events of it that
\* stream has taken so far
StepStream == fed[Len(fed)].events
Consumed == SubSeq(StepStream, 1, Len(StepStream) - Len(evq))

Assembling == mode = "stream" /\ pc \in {"stream", "tools"} /\ fed # <<>>

\* the argument fragments that the tool_call_delta events of evs carry for
\* id, concatenated in arrival order
RECURSIVE Fragments(_, _)
Fragments(evs, id) ==
    IF evs = <<>> THEN <<>>
    ELSE (IF Head(evs).type = "tool_call_delta" /\ Head(evs).id = id
          THEN Head(evs).arguments ELSE <<>>)
         \o Fragments(Tail(evs), id)

\* the arguments carried by the tool_call_end events of evs for id
EndArguments(evs, id) ==
    {evs[k].arguments : k \in {x \in DOMAIN evs :
                                  evs[x].type = "tool_call_end"
                                  /\ evs[x].id = id}}

(***************************************************************************)
(* C29.  In stream, the arguments of each assembled tool_call block are    *)
(* the parse of the concatenation, in arrival order, of the fragments      *)
(* delivered by the tool_call_delta events for that call's identifier (the *)
(* raw concatenation when it does not parse), also when the deltas of      *)
(* distinct calls interleave.                                              *)
(***************************************************************************)
C29_ArgumentsFromFragments ==
    Assembling =>
        \A i \in DOMAIN toolCalls :
            toolCalls[i].arguments =
                JsonParse(Fragments(Consumed, toolCalls[i].id))

\* the arguments of each assembled tool_call block are the parse of the
\* arguments that the tool_call_end event of the call carries
C29_ArgumentsFromEnd ==
    Assembling =>
        \A i \in DOMAIN toolCalls :
            \E a \in EndArguments(Consumed, toolCalls[i].id) :
                toolCalls[i].arguments = JsonParse(a)

(***************************************************************************)
(* C30.  For every function call streamed by LLMClient.stream, the id of   *)
(* its tool_call_delta events equals the id of its tool_call_start and     *)
(* tool_call_end events, also when the backend's item id differs from its  *)
(* call id.                                                                *)
(***************************************************************************)
\* what the generator yields for the k-th event of backend b
YieldedFor(b, k) ==
    LET sofar == AdaptedUpTo(b.events, k - 1).out
        next  == AdaptedUpTo(b.events, k).out
    IN SubSeq(next, Len(sofar) + 1, Len(next))

\* event k of b is a fragment of the function call that event j adds or ends
FragmentOf(b, k, j) ==
    /\ b.events[k].type = "response.function_call_arguments.delta"
    /\ b.events[j].type \in {"response.output_item.added",
                             "response.output_item.done"}
    /\ b.events[j].item.type = "function_call"
    /\ OrElse(b.events[j].item, "id", "") = b.events[k].item_id

\* the step in flight streams from backend b
StreamsFrom(b) ==
    /\ mode = "stream"
    /\ fed # <<>>
    /\ fed[Len(fed)] = Events(LLMStream(b))

OneId(b) ==
    \A k, j \in DOMAIN b.events :
        FragmentOf(b, k, j) =>
            \A x \in DOMAIN YieldedFor(b, k), y \in DOMAIN YieldedFor(b, j) :
                YieldedFor(b, k)[x].id = YieldedFor(b, j)[y].id

C30_OneIdPerCall == \A b \in BackendStreams : StreamsFrom(b) => OneId(b)

\* the ids agree for the calls whose items carry no call id of their own
C30_WithoutCallId ==
    \A b \in BackendStreams :
        (StreamsFrom(b)
           /\ \A j \in DOMAIN b.events :
                 "item" \in DOMAIN b.events[j] =>
                     "call_id" \notin DOMAIN b.events[j].item)
        => OneId(b)

(***************************************************************************)
(* C31.  In stream, the assistant message appended for a step consists of  *)
(* at most one text block, holding the concatenation of the text_delta     *)
(* texts of that step in arrival order (no text block when it is empty),   *)
(* followed by the tool_call blocks in the order in which their            *)
(* tool_call_end events arrived; nothing of an earlier step is in it.      *)
(***************************************************************************)
\* the texts of the text_delta events of evs, concatenated
RECURSIVE DeltaText(_)
DeltaText(evs) ==
    IF evs = <<>> THEN <<>>
    ELSE (IF Head(evs).type = "text_delta" THEN Head(evs).text ELSE <<>>)
         \o DeltaText(Tail(evs))

\* the tool_call blocks of the tool_call_end events of evs, in their order
RECURSIVE EndedCalls(_)
EndedCalls(evs) ==
    IF evs = <<>> THEN <<>>
    ELSE (IF Head(evs).type = "tool_call_end"
          THEN <<ToolCall(Head(evs).id, Head(evs).name,
                          JsonParse(Head(evs).arguments))>>
          ELSE <<>>)
         \o EndedCalls(Tail(evs))

Assembled(evs) ==
    (IF DeltaText(evs) = <<>> THEN <<>> ELSE <<Text(DeltaText(evs))>>)
        \o EndedCalls(evs)

C31_AssembledMessage ==
    mode = "stream" =>
        \A k \in 1..Cardinality(OwnAssistant) :
            messages[StepMessage(k)].content = Assembled(fed[k].events)

\* a step whose stream delivered a function call and then a text delta has
\* appended the text block first
C31_Witness ==
    /\ mode = "stream"
    /\ Cardinality(OwnAssistant) >= 1
    /\ \E k \in 1..Cardinality(OwnAssistant) :
          /\ fed[k].events[1].type = "tool_call_start"
          /\ DeltaText(fed[k].events) # <<>>
          /\ messages[StepMessage(k)].content[1].type = "text"

(***************************************************************************)
(* C32.  Within one step, no tool invocation starts before the step's      *)
(* assistant message has been appended, every invocation of the batch is   *)
(* started before the orchestrator waits for any result, and the tool      *)
(* message is appended only after every invocation of the batch has        *)
(* settled, for every completion order.                                    *)
(***************************************************************************)
AwaitingTools == mode \in {"run", "stream"} /\ pc = "tools"

\* while the orchestrator waits, the assistant message of the step is the
\* last message, and execute has been called for each of its tool calls
C32_StartedTogether ==
    AwaitingTools =>
        /\ messages[Len(messages)].role = "assistant"
        /\ toolCalls = ToolCallsOf(messages[Len(messages)].content)
        /\ Len(inv) = Len(toolCalls)
        /\ \A i \in DOMAIN inv : inv[i].phase # "waiting"

\* a step that appends a tool message
AppendsToolMessage ==
    /\ Len(messages') = Len(messages) + 1
    /\ messages'[Len(messages')].role = "tool"

C32_Batch ==
    [][/\ C32_StartedTogether
       /\ (mode' \in {"run", "stream"} /\ pc' = "tools" /\ pc # "tools") =>
             /\ Len(messages') = Len(messages) + 1
             /\ \A i \in DOMAIN inv' : inv'[i].phase # "waiting"
       /\ AppendsToolMessage =>
             /\ AwaitingTools
             /\ AllSettled(inv)
             /\ Len(messages'[Len(messages')].content) = Len(inv)]_vars

\* of a batch of two invocations, awaited by the orchestrator, the second
\* has settled first
C32_Witness ==
    /\ AwaitingTools
    /\ Len(inv) = 2
    /\ order = <<2>>

(***************************************************************************)
(* C33.  Every tool message appended by run or stream immediately follows  *)
(* the assistant message of the same step and holds exactly one            *)
(* tool_result per tool_call block of that message, in the same order and  *)
(* with toolCallId equal to the call's id; an assistant message without    *)
(* tool calls is followed by nothing in the same call, so the appended     *)
(* roles are user, (assistant, tool)*, and on success a final assistant.   *)
(***************************************************************************)
Answers(t, a) ==
    LET calls == ToolCallsOf(messages[a].content)
        results == messages[t].content
    IN  /\ Len(results) = Len(calls)
        /\ \A i \in 1..Len(results) :
              /\ results[i].type = "tool_result"
              /\ results[i].toolCallId = calls[i].id

C33_ToolMessageShape ==
    mode \in {"run", "stream"} =>
        /\ Len(messages) > runBase => messages[runBase + 1].role = "user"
        /\ \A m \in OwnMessages \ {runBase + 1} :
              messages[m].role \in {"assistant", "tool"}
        /\ \A t \in OwnTool :
              /\ t - 1 \in OwnAssistant
              /\ HasToolCalls(t - 1)
              /\ Answers(t, t - 1)
        /\ \A a \in OwnAssistant :
              /\ a > runBase + 2 => a - 1 \in OwnTool
              /\ ~HasToolCalls(a) => a = Len(messages)
              /\ (HasToolCalls(a) /\ a < Len(messages)) => a + 1 \in OwnTool
        /\ (pc = "idle" /\ outcome = "returned") =>
              /\ Len(messages) \in OwnAssistant
              /\ ~HasToolCalls(Len(messages))

\* a call that returned after a step with two tool calls of different ids
\* whose second invocation settled first
C33_Witness ==
    /\ mode \in {"run", "stream"}
    /\ pc = "idle"
    /\ outcome = "returned"
    /\ \E t \in OwnTool :
          /\ Len(messages[t].content) = 2
          /\ messages[t].content[1].toolCallId # messages[t].content[2].toolCallId
          /\ messages[Len(messages)].role = "assistant"

(***************************************************************************)
(* C34.  As claimed: whenever a stream call is no longer in flight         *)
(* (exhausted, failed, or closed early by its consumer after any yielded   *)
(* event), the session status is completed or error and never running;     *)
(* after run settles the status is completed exactly when run returned     *)
(* and error exactly when it threw.                                        *)
(***************************************************************************)
C34_NeverLeftRunning ==
    /\ Settled("stream") => status \in Terminal
    /\ Settled("run") =>
          /\ status = "completed" <=> outcome = "returned"
          /\ status = "error" <=> outcome = "threw"

\* what holds: a call that ran to its end, run or stream, leaves completed
\* exactly when it returned and error exactly when it threw; a stream closed
\* in the catch block leaves error
C34_SettledByItself ==
    /\ (pc = "idle" /\ outcome \in {"returned", "threw"}) =>
          /\ status = "completed" <=> outcome = "returned"
          /\ status = "error" <=> outcome = "threw"
    /\ (pc = "idle" /\ outcome = "closed" /\ yielded[Len(yielded)] = "error") =>
          status = "error"

\* the stream was closed at a yield of the loop and the session is running
C34_ClosedWhileRunning ==
    /\ Settled("stream")
    /\ outcome = "closed"
    /\ status = "running"

(***************************************************************************)
(* C35.  Assuming every inference call (or inference event stream) and     *)
(* every tool invocation eventually settles, every run and every fully     *)
(* consumed stream eventually terminates (returns or throws), after at     *)
(* most maxSteps steps; with maxSteps = 0 it fails with MaxStepsExceeded   *)
(* without issuing any inference call.                                     *)
(***************************************************************************)
InFlight == mode \in {"run", "stream"} /\ pc # "idle"

Terminated == pc = "idle" /\ outcome \in {"returned", "threw"}

C35_WithinMaxSteps ==
    mode \in {"run", "stream"} =>
        /\ step <= maxSteps
        /\ llmCalls <= maxSteps
        /\ Cardinality(OwnAssistant) <= maxSteps
        /\ (maxSteps = 0 /\ runs > 0) =>
              /\ Terminated
              /\ outcome = "threw"
              /\ thrown = "MaxStepsExceeded"
              /\ status = "error"
              /\ llmCalls = 0
              /\ fed = <<>>

C35_Terminates == [] C35_WithinMaxSteps /\ (InFlight ~> Terminated)

\* a call that took every one of its two steps and then ended
C35_Witness ==
    /\ Terminated
    /\ maxSteps = 2
    /\ step = maxSteps
    /\ llmCalls = 2
    /\ thrown = "MaxStepsExceeded"

(***************************************************************************)
(* C36.  As claimed: when the inference backend reports a failed response  *)
(* (the stream finishes with reason "error"), the call is treated as an    *)
(* inference failure: the session status becomes error, not completed,     *)
(* and the failure is surfaced to the caller.                              *)
(***************************************************************************)
\* the inference stream of the last step ended with finish{reason: "error"}
FinishedWithError ==
    /\ fed # <<>>
    /\ fed[Len(fed)].kind = "events"
    /\ StepStream # <<>>
    /\ StepStream[Len(StepStream)] = Finish("error")

C36_FailedResponseFails ==
    (Settled("stream") /\ FinishedWithError) =>
        /\ status = "error"
        /\ outcome = "threw"

\* what holds: the finish event is taken like any other, whatever its
\* reason, and a stream call that ends after it has completed
C36_FinishReasonIgnored ==
    (Settled("stream") /\ FinishedWithError /\ yielded[Len(yielded)] # "error") =>
        /\ status = "completed"
        /\ outcome = "returned"
        /\ messages[Len(messages)].role = "assistant"

(***************************************************************************)
(* C37.  As claimed: for a tool executor that returns a ToolResult, the    *)
(* produced tool_result has isError = true exactly when the ToolResult     *)
(* carries an error string (any string, the empty string included), and    *)
(* then its result is that error string; otherwise isError is false and    *)
(* its result is the ToolResult's output string.                           *)
(***************************************************************************)
Returned == { r \in AllOutcomes : r.kind = "return" }

\* the tool_result the claim describes for the ToolResult r
ByErrorString(call, r) ==
    ToolResultContent(call.id,
                      IF r.hasError THEN r.error ELSE r.output,
                      r.hasError)

C37_IsErrorIffErrorString ==
    [][\A i \in DOMAIN inv : \A r \in Returned :
          ToolReturns(i, r) => inv'[i].result = ByErrorString(toolCalls[i], r)]_vars

\* what holds: so it is for a ToolResult without an error string and for one
\* whose error string is not empty; an empty error string becomes the result
\* of a tool_result that is not marked as an error
C37_EmptyErrorUnmarked ==
    [][\A i \in DOMAIN inv : \A r \in Returned :
          ToolReturns(i, r) =>
              IF r.hasError /\ r.error = <<>>
              THEN inv'[i].result = ToolResultContent(toolCalls[i].id, <<>>, FALSE)
              ELSE inv'[i].result = ByErrorString(toolCalls[i], r)]_vars

(***************************************************************************)
(* C38.  As claimed: in the sequence of progress events of a run (callback *)
(* emissions in batch mode, yielded events in streaming mode), every       *)
(* message_start event is followed by a message_end event before the next  *)
(* message_start event and before the run ends successfully; in            *)
(* particular an assistant message that contains tool calls gets its own   *)
(* message_end before message_start{role: tool}, in both modes.            *)
(***************************************************************************)
Positions(seq, ty) == { i \in 1..Len(seq) : seq[i] = ty }

\* between two message_start events of seq there is a message_end event
EndsBeforeNextStart(seq) ==
    \A i, j \in Positions(seq, "message_start") :
        i < j => \E k \in Positions(seq, "message_end") : i < k /\ k < j

\* every message_start event of seq has a message_end event behind it
EveryStartEnds(seq) ==
    \A i \in Positions(seq, "message_start") :
        \E k \in Positions(seq, "message_end") : i < k

Bracketed ==
    /\ EndsBeforeNextStart(yielded)
    /\ (pc = "idle" /\ outcome = "returned") => EveryStartEnds(yielded)

C38_MessageEndPerMessage == mode \in {"run", "stream"} => Bracketed

\* what holds: the events of stream are bracketed; run emits message_end for
\* the tool message and for an assistant message without tool calls, so that
\* a run that returns has emitted message_end last
C38_StreamBracketed ==
    /\ mode = "stream" => Bracketed
    /\ (mode = "run" /\ onEvent.configured /\ pc = "idle"
           /\ outcome = "returned") =>
          /\ yielded[Len(yielded)] = "message_end"
          /\ Occurrences(yielded, "message_end") = 1 + Cardinality(OwnTool)
          /\ Occurrences(yielded, "message_start") = Cardinality(OwnMessages) - 1

(***************************************************************************)
(* C39.  As claimed: MCPManager tracks at most one client per server name  *)
(* and every client it has connected is tracked: addServer for a name that *)
(* is already tracked, or whose addServer is still suspended in connect,   *)
(* does not create or connect a second client and leaves the tracked set   *)
(* unchanged; a failed connect leaves the name untracked.                  *)
(***************************************************************************)
\* the clients created for the server name n
ClientsFor(n) == { c \in DOMAIN mcp : mcp[c].name = n }

Connecting(c) == mcp[c].opening = "connecting"

C39_OneClientPerName ==
    mode = "mcp" =>
        /\ \A c \in DOMAIN mcp : mcp[c].connected => c \in Tracked
        /\ \A n \in ServerNames :
              Cardinality({ c \in ClientsFor(n) :
                              mcp[c].connected \/ Connecting(c) }) <= 1
        /\ \A c \in DOMAIN mcp :
              (mcp[c].opening = "failed" /\ ~mcp[c].connected) => c \notin Tracked

\* what holds: the Map has one entry per name; a tracked client is
\* connected; a client whose connect failed is not tracked; addServer is
\* refused only for a name that is tracked
C39_TrackedOncePerName ==
    mode = "mcp" =>
        /\ \A i, j \in DOMAIN clients :
              clients[i].name = clients[j].name => i = j
        /\ \A c \in Tracked : mcp[c].connected
        /\ \A c \in DOMAIN mcp :
              (mcp[c].opening = "failed" /\ ~mcp[c].connected) => c \notin Tracked
        /\ \A n \in refused : MapHas(clients, n)

(***************************************************************************)
(* C40.  Every event sequence produced by LLMClient.stream ends with       *)
(* exactly one terminal event, either finish or error, never both and      *)
(* never neither, and no event follows it; an error raised while opening   *)
(* or reading the backend stream is delivered as the error event and is    *)
(* not thrown by the adapter.                                              *)
(***************************************************************************)
TerminalEvents == {"finish", "error"}

OneTerminalEvent(evs) ==
    /\ evs # <<>>
    /\ evs[Len(evs)].type \in TerminalEvents
    /\ \A i \in 1..(Len(evs) - 1) : evs[i].type \notin TerminalEvents

C40_OneTerminalEvent ==
    /\ \A b \in BackendStreams :
          /\ OneTerminalEvent(LLMStream(b))
          /\ b.fails <=> LLMStream(b)[Len(LLMStream(b))].type = "error"
    /\ \A k \in DOMAIN fed :
          fed[k].kind = "events" => OneTerminalEvent(fed[k].events)

\* the backend stream could not be opened: the inference stream of the step
\* was the error event alone, and the stream call ended with that error
C40_Witness ==
    /\ Settled("stream")
    /\ fed # <<>>
    /\ fed[Len(fed)] = Events(<<ErrorEvent("BackendError")>>)
    /\ thrown = "BackendError"
    /\ yielded = <<"step", "message_start", "error", "error">>

====
